---- MODULE Spec2Model ----
(***************************************************************************)
(* A model of icy_engine_egui's animation core (src/animations/animator.rs):*)
(* the Lua script host (run and its host functions load_buffer, new_buffer, *)
(* next_frame), the canvas capability LuaBuffer, frame capture              *)
(* (lua_next_frame) and the playback state machine of Animator.             *)
(*                                                                          *)
(* Four specifications share the variables:                                 *)
(*   SpecPre    the rewriting of the script text that run does first;       *)
(*   Spec       a script run: canvas calls and captures, at most MaxOps     *)
(*              host calls;                                                 *)
(*   SpecLimit  a script run that creates one canvas and captures it over   *)
(*              and over, up to and past MAX_FRAMES;                        *)
(*   SpecPlay   playback of a frame sequence by a render loop and its       *)
(*              controllers, one locked call at a time.                     *)
(***************************************************************************)
EXTENDS Integers, Sequences, FiniteSets, TLC

VARIABLES
    lua_buffer,                 \* the script's LuaBuffer, <<>> before new_buffer/load_buffer
    globals,                    \* the Lua globals the host seeds and reads
    frames,                     \* Animator.frames, run-length encoded (see PushFrame)
    current_monitor_settings,   \* Animator.current_monitor_settings
    cur_frame,                  \* Animator.cur_frame
    is_loop,                    \* Animator.is_loop
    is_playing,                 \* Animator.is_playing
    speed,                      \* Animator.speed
    elapsed,                    \* Animator.instant, kept as instant.elapsed() in ms
    buffer_view,                \* the buffer the renderer holds, <<>> before the first set_buffer
    pc,                         \* "preprocess", "script" while exec runs, "returned" after run returns
    run_result,                 \* what run returned to its caller
    ret,                        \* the last call and its outcome
    ops,                        \* host calls the script has made
    txt,                        \* the script text: in_txt, then what run hands to lua.load
    sync                        \* the Animator's mutex: its owner, where each thread is

vars == <<lua_buffer, globals, frames, current_monitor_settings, cur_frame, is_loop,
          is_playing, speed, elapsed, buffer_view, pc, run_result, ret, ops, txt, sync>>

animator_vars == <<frames, current_monitor_settings, cur_frame, is_loop, is_playing,
                   speed, elapsed>>

\* The threads that reach the Animator: run's script while it executes, then
\* the host's render loop and its UI callbacks.
Threads == {"script", "render", "ui"}

\* Mutex::new(Animator::default()): nobody holds the lock.  stmt is the
\* statement of the next_frame host function the script is at (0: outside).
Unlocked == [owner |-> "none", at |-> [t \in Threads |-> "idle"], stmt |-> 0]

----------------------------------------------------------------------------
(* Program constants *)

MAX_FRAMES == 4096
DEFAULT_SPEEED == 100

(* Bounds of the model *)

MaxOps == 4          \* host calls one script makes under Spec
MaxPlayFrames == 3   \* longest frame sequence SpecPlay starts from
MaxElapsed == 300    \* the clock is followed this far past Animator.instant

(* Inputs *)

BufferSizes == {<<4, 2>>}
Files == {"missing.ans", "broken.ans", "layers.icy", "unicode.txt"}   \* load_buffer's argument
LayerArgs == {0, 1, 2}                 \* layer indices a script passes
VisibleLayerArgs == {-1, 0, 1, 2}      \* the i32 layer of set_layer_visible
Positions == {<<0, 0>>, <<1, 0>>}      \* cell coordinates a script passes
CharArgs == {<<65>>, <<233>>, <<>>}    \* "A", U+00E9 and the empty string, as code points
PrintArgs == {<<65, 66>>, <<>>}        \* "AB", ""
RgbArgs == {<<255, 0, 0>>}             \* a colour the DOS palette lacks
ColorArgs == {4}                       \* a palette index for set_fg/set_bg
SizeArgs == {3}                        \* a new width or height
OffsetArgs == {<<1, 1>>}               \* a layer offset
NextFrameArgs == {"canvas", "userdata", "value"}
GlobalWrites == {<<"monitor_type", [ty |-> "number", v |-> 1]>>,
                 <<"monitor_blur", [ty |-> "nil", v |-> 0]>>}
TickSteps == {50, 200}
Speeds == {40, 200}

----------------------------------------------------------------------------
(* Values of the external crate icy_engine, as this code uses them *)

DosPalette ==
    << <<0, 0, 0>>, <<0, 0, 170>>, <<0, 170, 0>>, <<0, 170, 170>>,
       <<170, 0, 0>>, <<170, 0, 170>>, <<170, 85, 0>>, <<170, 170, 170>>,
       <<85, 85, 85>>, <<85, 85, 255>>, <<85, 255, 85>>, <<85, 255, 255>>,
       <<255, 85, 85>>, <<255, 85, 255>>, <<255, 255, 85>>, <<255, 255, 255>> >>

\* Caret::default(): at the origin, light grey on black, font page 0.
Caret_default ==
    [pos |-> <<0, 0>>, attribute |-> [fg |-> 7, bg |-> 0, font_page |-> 0]]

\* A layer without any written cell; cells maps the written positions only.
Layer_new ==
    [is_visible |-> TRUE, offset |-> <<0, 0>>, cells |-> <<>>]

\* Buffer::new(size): one blank layer, the DOS palette, the default font,
\* CP437, not a terminal buffer.
Buffer_new(size) ==
    [width |-> size[1], height |-> size[2],
     layers |-> <<Layer_new>>,
     palette |-> DosPalette,
     font_table |-> {0},
     terminal_state |-> size,
     buffer_type |-> "CP437",
     is_terminal_buffer |-> FALSE]

\* Buffer::create(size), as new_buffer calls it.
Buffer_create(size) == Buffer_new(size)

get_size(buffer) == <<buffer.width, buffer.height>>

----------------------------------------------------------------------------
(* MonitorSettings *)

MonitorSettings_default ==
    [use_filter |-> FALSE, monitor_type |-> 0, gamma |-> 50, contrast |-> 50,
     saturation |-> 50, brightness |-> 30, light |-> 40, blur |-> 30,
     curvature |-> 10, scanlines |-> 10]

MonitorSettings_neutral ==
    [use_filter |-> FALSE, monitor_type |-> 0, gamma |-> 50, contrast |-> 50,
     saturation |-> 50, brightness |-> 50, light |-> 50, blur |-> 0,
     curvature |-> 0, scanlines |-> 0]

----------------------------------------------------------------------------
(* Animator.frames.  The Vec<(Buffer, MonitorSettings, u32)> is kept         *)
(* run-length encoded: a run [n, f] stands for n consecutive entries equal   *)
(* to f, and adjacent runs hold different entries, so that one Vec has one   *)
(* representation.  NumFrames, FrameAt and PushFrame read and write it as    *)
(* the Vec: len(), get(i) (0-based) and push.                                *)

RECURSIVE RunsLen(_)
RunsLen(runs) ==
    IF runs = <<>> THEN 0 ELSE runs[1].n + RunsLen(Tail(runs))

NumFrames == RunsLen(frames)

RECURSIVE RunsAt(_, _)
RunsAt(runs, i) ==
    IF i < runs[1].n THEN runs[1].f ELSE RunsAt(Tail(runs), i - runs[1].n)

FrameAt(i) == RunsAt(frames, i)

PushFrame(runs, f) ==
    IF runs # <<>> /\ runs[Len(runs)].f = f
    THEN [runs EXCEPT ![Len(runs)].n = @ + 1]
    ELSE Append(runs, [n |-> 1, f |-> f])

\* A captured frame owns its Buffer: Buffer::new plus clones of every part.
\* owned = FALSE would be a frame that shares the canvas it was taken from.
FrameBuffer(f) ==
    IF f.owned \/ lua_buffer = <<>> THEN f.buffer ELSE lua_buffer[1].buffer

----------------------------------------------------------------------------
(* The outcome of a call *)

\* settings: <<s>> when the call returned the MonitorSettings s, else <<>>.
Ret(op, ok, err) == [op |-> op, ok |-> ok, err |-> err, settings |-> <<>>]

RetSettings(op, s) == [op |-> op, ok |-> TRUE, err |-> "", settings |-> <<s>>]

NoResult == [kind |-> "running", engine |-> FALSE, err |-> ""]

\* Mutant of run_return: the Animator is handed out after an error too.
run_return_keeps_engine(exec_ok, err) ==
    IF exec_ok
    THEN [kind |-> "Ok", engine |-> TRUE, err |-> ""]
    ELSE [kind |-> "Err", engine |-> TRUE, err |-> err]

\* run's last two lines: `lua.load(txt).exec()?; Ok(animator)`.  An error
\* leaves through `?`: the caller gets Err(e) and no Animator.
run_return(exec_ok, err) ==
    IF exec_ok
    THEN [kind |-> "Ok", engine |-> TRUE, err |-> ""]
    ELSE [kind |-> "Err", engine |-> FALSE, err |-> err]

----------------------------------------------------------------------------
(* Frame capture *)

\* Mutant of capture_frame: the frame shares the canvas instead of copying it.
capture_frame_shared(buffer, settings, spd) ==
    [buffer |-> buffer, owned |-> FALSE, settings |-> settings, speed |-> spd]

\* Mutant of capture_frame: the palette of the canvas is not copied.
capture_frame_fresh_palette(buffer, settings, spd) ==
    [buffer |-> [Buffer_new(get_size(buffer)) EXCEPT
                    !.layers = buffer.layers,
                    !.terminal_state = buffer.terminal_state,
                    !.font_table = buffer.font_table],
     owned |-> TRUE,
     settings |-> settings,
     speed |-> spd]

\* The frame lua_next_frame builds from the canvas.
\* Mutant of capture_frame: no duration is stored with the frame.
capture_frame_no_duration(buffer, settings, spd) ==
    [buffer |-> [Buffer_new(get_size(buffer)) EXCEPT
                    !.layers = buffer.layers,
                    !.terminal_state = buffer.terminal_state,
                    !.palette = buffer.palette,
                    !.font_table = buffer.font_table],
     owned |-> TRUE,
     settings |-> settings,
     speed |-> 0]

capture_frame(buffer, settings, spd) ==
    [buffer |-> [Buffer_new(get_size(buffer)) EXCEPT
                    !.layers = buffer.layers,
                    !.terminal_state = buffer.terminal_state,
                    !.palette = buffer.palette,
                    !.font_table = buffer.font_table],
     owned |-> TRUE,
     settings |-> settings,
     speed |-> spd]

\* The guard of lua_next_frame.
frame_limit_reached(len) == len > MAX_FRAMES

\* Animator::lua_next_frame on frames fs holding len entries.
lua_next_frame(fs, len, buffer, settings, spd) ==
    IF frame_limit_reached(len)
    THEN [ok |-> FALSE, err |-> "Maximum number of frames reached", frames |-> fs]
    ELSE [ok |-> TRUE, err |-> "", frames |-> PushFrame(fs, capture_frame(buffer, settings, spd))]

----------------------------------------------------------------------------
(* The canvas capability LuaBuffer: [cur_layer, caret, buffer].  A method    *)
(* or field access gives [ok, err, panic, lb, value]: its result, the        *)
(* LuaBuffer after it and the value handed to the script (<<>> for none).    *)
(* Layers are indexed from 0 in the code and from 1 here.                    *)

Done(lb) == [ok |-> TRUE, err |-> "", panic |-> FALSE, lb |-> lb, value |-> <<>>]
Failed(lb, err) == [ok |-> FALSE, err |-> err, panic |-> FALSE, lb |-> lb, value |-> <<>>]
Panicked(lb, err) == [ok |-> FALSE, err |-> err, panic |-> TRUE, lb |-> lb, value |-> <<>>]

layer_count(lb) == Len(lb.buffer.layers)

\* `x as usize` of an i32.  A negative x becomes a usize of at least
\* 2^64 - 2^31, more than TLC's integers hold: it is kept as the largest
\* integer TLC has, which like it is beyond the length of any Vec.
as_usize(n) == IF n < 0 THEN 2147483647 ELSE n

\* icy_engine's CP437 parser on the characters tried: ASCII maps to itself,
\* U+00E9 to 0x82, what the table lacks is passed through.
cp437_from_unicode(c) == IF c = 233 THEN 130 ELSE c
cp437_to_unicode(c) == IF c = 130 THEN 233 ELSE c

\* LuaBuffer::convert_from_unicode: the first character of the string in the
\* buffer's encoding.
\* Mutant of convert_from_unicode: the empty string converts to NUL.
convert_from_unicode_empty_as_nul(lb, str) ==
    [ok |-> TRUE, err |-> "",
     ch |-> IF str = <<>> THEN 0
            ELSE IF lb.buffer.buffer_type = "Unicode" THEN str[1]
            ELSE cp437_from_unicode(str[1])]

convert_from_unicode(lb, str) ==
    IF str = <<>>
    THEN [ok |-> FALSE, err |-> "Empty string", ch |-> 0]
    ELSE [ok |-> TRUE, err |-> "",
          ch |-> IF lb.buffer.buffer_type = "Unicode" THEN str[1]
                 ELSE cp437_from_unicode(str[1])]

\* LuaBuffer::convert_to_unicode
convert_to_unicode(lb, ch) ==
    IF lb.buffer.buffer_type = "Unicode" THEN <<ch.ch>>
    ELSE <<cp437_to_unicode(ch.ch)>>

\* Layer::set_char, for the non-negative coordinates the scripts here pass.
Layer_set_char(layer, pos, ch) ==
    [layer EXCEPT !.cells = [q \in (DOMAIN @) \cup {pos} |->
                                IF q = pos THEN ch ELSE @[q]]]

\* Layer::get_char: a cell never written reads as a blank in the default
\* attribute.
Layer_get_char(layer, pos) ==
    IF pos \in DOMAIN layer.cells
    THEN layer.cells[pos]
    ELSE [ch |-> 32, attribute |-> Caret_default.attribute]

\* Mutant of insert_color_rgb: the colour is appended without a lookup.
insert_color_rgb_append(palette, rgb) ==
    [palette |-> Append(palette, rgb), color |-> Len(palette)]

\* Palette::insert_color_rgb: the index of the colour, appended when new.
insert_color_rgb(palette, rgb) ==
    IF \E i \in DOMAIN palette : palette[i] = rgb
    THEN [palette |-> palette,
          color |-> (CHOOSE i \in DOMAIN palette :
                        /\ palette[i] = rgb
                        /\ \A j \in DOMAIN palette : palette[j] = rgb => i <= j) - 1]
    ELSE [palette |-> Append(palette, rgb), color |-> Len(palette)]

\* The two out-of-range messages (the code appends the index and the range).
CurLayerError == "Current layer out of range"
LayerError == "Layer out of range"

\* Mutant of set_layer: the bound is off by one.
set_layer_off_by_one(lb, val) ==
    IF val <= layer_count(lb)
    THEN Done([lb EXCEPT !.cur_layer = val])
    ELSE Failed(lb, LayerError)

\* field `layer` (set)
set_layer(lb, val) ==
    IF val < layer_count(lb)
    THEN Done([lb EXCEPT !.cur_layer = val])
    ELSE Failed(lb, LayerError)

\* fields `width` and `height` (set)
set_width(lb, val) == Done([lb EXCEPT !.buffer.width = val])
set_height(lb, val) == Done([lb EXCEPT !.buffer.height = val])

fg_rgb(lb, rgb) ==
    LET ins == insert_color_rgb(lb.buffer.palette, rgb)
    IN [Done([lb EXCEPT !.buffer.palette = ins.palette,
                        !.caret.attribute.fg = ins.color])
           EXCEPT !.value = <<ins.color>>]

bg_rgb(lb, rgb) ==
    LET ins == insert_color_rgb(lb.buffer.palette, rgb)
    IN [Done([lb EXCEPT !.buffer.palette = ins.palette,
                        !.caret.attribute.bg = ins.color])
           EXCEPT !.value = <<ins.color>>]

set_char(lb, pos, str) ==
    IF lb.cur_layer >= layer_count(lb)
    THEN Failed(lb, CurLayerError)
    ELSE LET cv == convert_from_unicode(lb, str)
         IN IF ~cv.ok
            THEN Failed(lb, cv.err)
            ELSE Done([lb EXCEPT !.buffer.layers[lb.cur_layer + 1] =
                          Layer_set_char(@, pos,
                              [ch |-> cv.ch, attribute |-> lb.caret.attribute])])

\* Mutant of get_char: the cell is read from layer 0, not the active layer.
get_char_bottom_layer(lb, pos) ==
    IF lb.cur_layer >= layer_count(lb)
    THEN Failed(lb, CurLayerError)
    ELSE [Done(lb) EXCEPT !.value =
             convert_to_unicode(lb, Layer_get_char(lb.buffer.layers[1], pos))]

get_char(lb, pos) ==
    IF lb.cur_layer >= layer_count(lb)
    THEN Failed(lb, CurLayerError)
    ELSE [Done(lb) EXCEPT !.value =
             convert_to_unicode(lb,
                 Layer_get_char(lb.buffer.layers[lb.cur_layer + 1], pos))]

\* Mutant of pickup_char: only the foreground is copied onto the cursor.
pickup_char_fg_only(lb, pos) ==
    IF lb.cur_layer >= layer_count(lb)
    THEN Failed(lb, CurLayerError)
    ELSE LET ch == Layer_get_char(lb.buffer.layers[lb.cur_layer + 1], pos)
         IN [Done([lb EXCEPT !.caret.attribute.fg = ch.attribute.fg])
                EXCEPT !.value = convert_to_unicode(lb, ch)]

\* pickup_char(x, y): get_char, and caret.set_attr of the cell's attribute.
pickup_char(lb, pos) ==
    IF lb.cur_layer >= layer_count(lb)
    THEN Failed(lb, CurLayerError)
    ELSE LET ch == Layer_get_char(lb.buffer.layers[lb.cur_layer + 1], pos)
         IN [Done([lb EXCEPT !.caret.attribute = ch.attribute])
                EXCEPT !.value = convert_to_unicode(lb, ch)]

\* Mutant of set_fg: the colour goes to the cursor as well.
set_fg_on_caret(lb, pos, col) ==
    IF lb.cur_layer >= layer_count(lb)
    THEN Failed(lb, CurLayerError)
    ELSE LET ch == Layer_get_char(lb.buffer.layers[lb.cur_layer + 1], pos)
         IN Done([lb EXCEPT !.buffer.layers[lb.cur_layer + 1] =
                      Layer_set_char(@, pos, [ch EXCEPT !.attribute.fg = col]),
                            !.caret.attribute.fg = col])

set_fg(lb, pos, col) ==
    IF lb.cur_layer >= layer_count(lb)
    THEN Failed(lb, CurLayerError)
    ELSE LET ch == Layer_get_char(lb.buffer.layers[lb.cur_layer + 1], pos)
         IN Done([lb EXCEPT !.buffer.layers[lb.cur_layer + 1] =
                      Layer_set_char(@, pos, [ch EXCEPT !.attribute.fg = col])])

\* get_fg(x, y)
get_fg(lb, pos) ==
    IF lb.cur_layer >= layer_count(lb)
    THEN Failed(lb, CurLayerError)
    ELSE [Done(lb) EXCEPT !.value =
             <<Layer_get_char(lb.buffer.layers[lb.cur_layer + 1], pos).attribute.fg>>]

set_bg(lb, pos, col) ==
    IF lb.cur_layer >= layer_count(lb)
    THEN Failed(lb, CurLayerError)
    ELSE LET ch == Layer_get_char(lb.buffer.layers[lb.cur_layer + 1], pos)
         IN Done([lb EXCEPT !.buffer.layers[lb.cur_layer + 1] =
                      Layer_set_char(@, pos, [ch EXCEPT !.attribute.bg = col])])

\* get_bg(x, y)
get_bg(lb, pos) ==
    IF lb.cur_layer >= layer_count(lb)
    THEN Failed(lb, CurLayerError)
    ELSE [Done(lb) EXCEPT !.value =
             <<Layer_get_char(lb.buffer.layers[lb.cur_layer + 1], pos).attribute.bg>>]

\* Mutant of print: the characters are written in the default attribute.
RECURSIVE print_default_attribute(_, _)
print_default_attribute(lb, str) ==
    IF str = <<>>
    THEN Done(lb)
    ELSE IF lb.cur_layer >= layer_count(lb)
    THEN Panicked(lb, "index out of bounds")
    ELSE LET cv == convert_from_unicode(lb, <<Head(str)>>)
             pos == lb.caret.pos
         IN print_default_attribute(
                [lb EXCEPT
                    !.buffer.layers[lb.cur_layer + 1] =
                        Layer_set_char(@, pos,
                            [ch |-> cv.ch, attribute |-> Caret_default.attribute]),
                    !.caret.pos = <<pos[1] + 1, pos[2]>>],
                Tail(str))

\* print: one set_char at the caret and one step right per character.  The
\* layer index is not checked: layers[cur_layer] panics when it is out of
\* range.
RECURSIVE print(_, _)
print(lb, str) ==
    IF str = <<>>
    THEN Done(lb)
    ELSE IF lb.cur_layer >= layer_count(lb)
    THEN Panicked(lb, "index out of bounds")
    ELSE LET cv == convert_from_unicode(lb, <<Head(str)>>)
             pos == lb.caret.pos
         IN print([lb EXCEPT
                      !.buffer.layers[lb.cur_layer + 1] =
                          Layer_set_char(@, pos,
                              [ch |-> cv.ch, attribute |-> lb.caret.attribute]),
                      !.caret.pos = <<pos[1] + 1, pos[2]>>],
                  Tail(str))

set_layer_position(lb, layer, offset) ==
    IF layer < layer_count(lb)
    THEN Done([lb EXCEPT !.buffer.layers[layer + 1].offset = offset])
    ELSE Failed(lb, LayerError)

\* get_layer_position(layer)
get_layer_position(lb, layer) ==
    IF layer < layer_count(lb)
    THEN [Done(lb) EXCEPT !.value = lb.buffer.layers[layer + 1].offset]
    ELSE Failed(lb, LayerError)

\* Mutant of set_layer_visible: the flag goes to the active layer.
set_layer_visible_active(lb, layer, is_visible) ==
    IF as_usize(layer) < layer_count(lb)
    THEN Done([lb EXCEPT !.buffer.layers[lb.cur_layer + 1].is_visible = is_visible])
    ELSE Failed(lb, LayerError)

set_layer_visible(lb, layer, is_visible) ==
    IF as_usize(layer) < layer_count(lb)
    THEN Done([lb EXCEPT !.buffer.layers[as_usize(layer) + 1].is_visible = is_visible])
    ELSE Failed(lb, LayerError)

\* get_layer_visible(layer)
get_layer_visible(lb, layer) ==
    IF layer < layer_count(lb)
    THEN [Done(lb) EXCEPT !.value = <<lb.buffer.layers[layer + 1].is_visible>>]
    ELSE Failed(lb, LayerError)

\* Mutant of clear: the palette outlives the canvas it was built on.
clear_keep_palette(lb) ==
    Done([lb EXCEPT !.caret = Caret_default,
                    !.buffer = [Buffer_new(get_size(lb.buffer)) EXCEPT
                                   !.palette = lb.buffer.palette]])

\* Mutant of clear: the cursor is left where it is.
clear_keep_caret(lb) ==
    Done([lb EXCEPT !.buffer = Buffer_new(get_size(lb.buffer))])

\* clear()
clear(lb) ==
    Done([lb EXCEPT !.caret = Caret_default,
                    !.buffer = Buffer_new(get_size(lb.buffer))])

\* What Buffer::load_buffer finds on disk: no file, a file no loader reads,
\* a CP437 file of two layers and two fonts, a file loaded as a Unicode buffer.
FileSystem ==
    [f \in Files |->
        [exists |-> f # "missing.ans",
         loads |-> f \in {"layers.icy", "unicode.txt"},
         buffer |-> IF f = "unicode.txt"
                    THEN [Buffer_new(<<2, 1>>) EXCEPT !.buffer_type = "Unicode"]
                    ELSE [Buffer_new(<<2, 1>>) EXCEPT !.layers = <<Layer_new, Layer_new>>,
                                                      !.font_table = {0, 1}]]]

\* The host function load_buffer(file)
load_buffer(file) ==
    IF ~FileSystem[file].exists
    THEN Failed(<<>>, "File not found")
    ELSE IF FileSystem[file].loads
    THEN Done([cur_layer |-> 0, caret |-> Caret_default,
               buffer |-> FileSystem[file].buffer])
    ELSE Failed(<<>>, "Could not load file")

----------------------------------------------------------------------------
(* The Lua globals.  A value is a number or something get::<usize>/<f32>    *)
(* cannot convert (nil, a table, a non-numeric string).                     *)

Num(n) == [ty |-> "number", v |-> n]

\* global name, MonitorSettings field: in the order next_frame reads them.
MonitorGlobals ==
    << <<"monitor_type", "monitor_type">>, <<"monitor_gamma", "gamma">>,
       <<"monitor_contrast", "contrast">>, <<"monitor_saturation", "saturation">>,
       <<"monitor_brightness", "brightness">>, <<"monitor_blur", "blur">>,
       <<"monitor_curvature", "curvature">>, <<"monitor_scanlines", "scanlines">> >>

GlobalNames == {"cur_frame"} \cup {MonitorGlobals[i][1] : i \in DOMAIN MonitorGlobals}

\* run seeds cur_frame and the monitor globals from the new Animator.
seed_globals(settings) ==
    [name \in GlobalNames |->
        IF name = "cur_frame" THEN Num(1)
        ELSE LET i == CHOOSE k \in DOMAIN MonitorGlobals : MonitorGlobals[k][1] = name
             IN Num(settings[MonitorGlobals[i][2]])]

\* Mutant of read_monitor_globals: the globals are not read.
read_monitor_globals_stale(settings, g, i) ==
    [ok |-> TRUE, err |-> "", settings |-> settings]

\* Mutant of read_monitor_globals: nothing is stored unless every global
\* converts.
read_monitor_globals_all_or_nothing(settings, g, i) ==
    IF \A k \in i..Len(MonitorGlobals) : g[MonitorGlobals[k][1]].ty = "number"
    THEN [ok |-> TRUE, err |-> "",
          settings |-> [f \in DOMAIN settings |->
                           IF \E k \in i..Len(MonitorGlobals) : MonitorGlobals[k][2] = f
                           THEN g[MonitorGlobals[CHOOSE k \in i..Len(MonitorGlobals) :
                                                    MonitorGlobals[k][2] = f][1]].v
                           ELSE settings[f]]]
    ELSE [ok |-> FALSE, err |-> "error converting Lua value", settings |-> settings]

\* The eight `settings.field = lua.globals().get(name)?` of next_frame from the
\* i-th on: each read that converts is stored before the next is tried, the
\* first that does not returns its error.
RECURSIVE read_monitor_globals(_, _, _)
read_monitor_globals(settings, g, i) ==
    IF i > Len(MonitorGlobals)
    THEN [ok |-> TRUE, err |-> "", settings |-> settings]
    ELSE IF g[MonitorGlobals[i][1]].ty # "number"
         THEN [ok |-> FALSE, err |-> "error converting Lua value", settings |-> settings]
         ELSE read_monitor_globals(
                  [settings EXCEPT ![MonitorGlobals[i][2]] = g[MonitorGlobals[i][1]].v],
                  g, i + 1)

----------------------------------------------------------------------------
(* The script's steps.  A call that returns an error either is caught by     *)
(* the script (pcall) or ends exec: run then returns through `?`.            *)

Outcome(op, ok, err, caught) ==
    /\ ret' = Ret(op, ok, err)
    /\ IF ok \/ caught
       THEN UNCHANGED <<pc, run_result>>
       ELSE /\ pc' = "returned"
            /\ run_result' = run_return(FALSE, err)

\* A call on the canvas with result r.  A panic unwinds through exec and run:
\* run does not return.
CanvasCall(op, r, caught) ==
    /\ lua_buffer' = <<r.lb>>
    /\ IF r.panic
       THEN /\ ret' = Ret(op, FALSE, r.err)
            /\ pc' = "panicked"
            /\ UNCHANGED run_result
       ELSE Outcome(op, r.ok, r.err, caught)
    /\ UNCHANGED <<globals, frames, current_monitor_settings, cur_frame, is_loop,
                   is_playing, speed, elapsed, buffer_view>>

play_vars == <<cur_frame, is_loop, is_playing, speed, elapsed, buffer_view>>

\* new_buffer(width, height)
new_buffer(size) ==
    /\ lua_buffer' = <<[cur_layer |-> 0, caret |-> Caret_default,
                        buffer |-> Buffer_create(size)]>>
    /\ Outcome("new_buffer", TRUE, "", FALSE)
    /\ UNCHANGED <<globals, frames, current_monitor_settings, play_vars>>

\* Mutant of script_next_frame: any userdata is taken for a canvas.
script_next_frame_any_userdata(arg, caught) ==
    IF arg = "value"
    THEN /\ Outcome("next_frame", FALSE, "UserData parameter required", caught)
         /\ UNCHANGED <<lua_buffer, globals, frames, current_monitor_settings, play_vars>>
    ELSE LET g == [globals EXCEPT !["cur_frame"] = Num(NumFrames + 2)]
             rd == read_monitor_globals(current_monitor_settings, g, 1)
             cap == lua_next_frame(frames, NumFrames, lua_buffer[1].buffer,
                                   rd.settings, speed)
         IN /\ globals' = g
            /\ current_monitor_settings' = rd.settings
            /\ IF ~rd.ok
               THEN /\ Outcome("next_frame", FALSE, rd.err, caught)
                    /\ UNCHANGED frames
               ELSE /\ Outcome("next_frame", cap.ok, cap.err, caught)
                    /\ frames' = cap.frames
            /\ UNCHANGED <<lua_buffer, play_vars>>

\* Mutant of script_next_frame: cur_frame is set to the number of frames
\* plus one before the capture.
script_next_frame_late_counter(arg, caught) ==
    IF arg = "value"
    THEN /\ Outcome("next_frame", FALSE, "UserData parameter required", caught)
         /\ UNCHANGED <<lua_buffer, globals, frames, current_monitor_settings, play_vars>>
    ELSE LET g == [globals EXCEPT !["cur_frame"] = Num(NumFrames + 1)]
             rd == read_monitor_globals(current_monitor_settings, g, 1)
             cap == lua_next_frame(frames, NumFrames, lua_buffer[1].buffer,
                                   rd.settings, speed)
         IN /\ globals' = g
            /\ current_monitor_settings' = rd.settings
            /\ IF ~rd.ok
               THEN /\ Outcome("next_frame", FALSE, rd.err, caught)
                    /\ UNCHANGED frames
               ELSE IF arg = "userdata"
               THEN /\ Outcome("next_frame", FALSE, "userdata type mismatch", caught)
                    /\ UNCHANGED frames
               ELSE /\ Outcome("next_frame", cap.ok, cap.err, caught)
                    /\ frames' = cap.frames
            /\ UNCHANGED <<lua_buffer, play_vars>>

\* The host function next_frame(buffer).  arg is what the script passes:
\* "canvas" its LuaBuffer, "userdata" a userdata of another type,
\* "value" anything that is no userdata.
script_next_frame(arg, caught) ==
    IF arg = "value"
    THEN /\ Outcome("next_frame", FALSE, "UserData parameter required", caught)
         /\ UNCHANGED <<lua_buffer, globals, frames, current_monitor_settings, play_vars>>
    ELSE LET g == [globals EXCEPT !["cur_frame"] = Num(NumFrames + 2)]
             rd == read_monitor_globals(current_monitor_settings, g, 1)
             cap == lua_next_frame(frames, NumFrames, lua_buffer[1].buffer,
                                   rd.settings, speed)
         IN /\ globals' = g
            /\ current_monitor_settings' = rd.settings
            /\ IF ~rd.ok
               THEN /\ Outcome("next_frame", FALSE, rd.err, caught)
                    /\ UNCHANGED frames
               ELSE IF arg = "userdata"
               THEN /\ Outcome("next_frame", FALSE, "userdata type mismatch", caught)
                    /\ UNCHANGED frames
               ELSE /\ Outcome("next_frame", cap.ok, cap.err, caught)
                    /\ frames' = cap.frames
            /\ UNCHANGED <<lua_buffer, play_vars>>

\* load_buffer(file)
script_load_buffer(file, caught) ==
    /\ lua_buffer' = IF load_buffer(file).ok THEN <<load_buffer(file).lb>> ELSE lua_buffer
    /\ Outcome("load_buffer", load_buffer(file).ok, load_buffer(file).err, caught)
    /\ UNCHANGED <<globals, frames, current_monitor_settings, play_vars>>

\* The script assigns a global.
set_global(name, value) ==
    /\ globals' = [globals EXCEPT ![name] = value]
    /\ Outcome("set_global", TRUE, "", FALSE)
    /\ UNCHANGED <<lua_buffer, frames, current_monitor_settings, play_vars>>

\* The script itself raises (error(...), a call of nil, bad syntax).
script_error ==
    /\ Outcome("script", FALSE, "script error", FALSE)
    /\ UNCHANGED <<lua_buffer, globals, frames, current_monitor_settings, play_vars>>

\* exec reaches the end of the script: run returns Ok(animator).
script_end ==
    /\ pc' = "returned"
    /\ run_result' = run_return(TRUE, "")
    /\ ret' = Ret("exec", TRUE, "")
    /\ UNCHANGED <<lua_buffer, globals, frames, current_monitor_settings, play_vars>>

----------------------------------------------------------------------------
(* The state run builds before exec: Animator::default(), the globals.      *)

InitScript ==
    /\ lua_buffer = <<>>
    /\ globals = seed_globals(MonitorSettings_neutral)
    /\ frames = <<>>
    /\ current_monitor_settings = MonitorSettings_neutral
    /\ cur_frame = 0
    /\ is_loop = FALSE
    /\ is_playing = FALSE
    /\ speed = DEFAULT_SPEEED
    /\ elapsed = 0
    /\ buffer_view = <<>>
    /\ pc = "script"
    /\ run_result = NoResult
    /\ ret = Ret("run", TRUE, "")
    /\ ops = 0
    /\ txt = <<>>
    /\ sync = Unlocked

----------------------------------------------------------------------------
(* Spec: a script of at most MaxOps host calls.  It creates its canvas      *)
(* first and then calls the canvas, next_frame and the globals in any order. *)

CanvasStep ==
    \E caught \in BOOLEAN :
        \/ \E val \in LayerArgs :
              CanvasCall("layer", set_layer(lua_buffer[1], val), caught)
        \/ \E val \in SizeArgs :
              CanvasCall("width", set_width(lua_buffer[1], val), caught)
        \/ \E val \in SizeArgs :
              CanvasCall("height", set_height(lua_buffer[1], val), caught)
        \/ \E rgb \in RgbArgs :
              CanvasCall("fg_rgb", fg_rgb(lua_buffer[1], rgb), caught)
        \/ \E rgb \in RgbArgs :
              CanvasCall("bg_rgb", bg_rgb(lua_buffer[1], rgb), caught)
        \/ \E pos \in Positions, str \in CharArgs :
              CanvasCall("set_char", set_char(lua_buffer[1], pos, str), caught)
        \/ \E pos \in Positions :
              CanvasCall("get_char", get_char(lua_buffer[1], pos), caught)
        \/ \E pos \in Positions :
              CanvasCall("pickup_char", pickup_char(lua_buffer[1], pos), caught)
        \/ \E pos \in Positions, col \in ColorArgs :
              CanvasCall("set_fg", set_fg(lua_buffer[1], pos, col), caught)
        \/ \E pos \in Positions :
              CanvasCall("get_fg", get_fg(lua_buffer[1], pos), caught)
        \/ \E pos \in Positions, col \in ColorArgs :
              CanvasCall("set_bg", set_bg(lua_buffer[1], pos, col), caught)
        \/ \E pos \in Positions :
              CanvasCall("get_bg", get_bg(lua_buffer[1], pos), caught)
        \/ \E str \in PrintArgs :
              CanvasCall("print", print(lua_buffer[1], str), caught)
        \/ \E layer \in LayerArgs, offset \in OffsetArgs :
              CanvasCall("set_layer_position",
                         set_layer_position(lua_buffer[1], layer, offset), caught)
        \/ \E layer \in LayerArgs :
              CanvasCall("get_layer_position",
                         get_layer_position(lua_buffer[1], layer), caught)
        \/ \E layer \in LayerArgs :
              CanvasCall("get_layer_visible",
                         get_layer_visible(lua_buffer[1], layer), caught)
        \/ \E layer \in VisibleLayerArgs, flag \in BOOLEAN :
              CanvasCall("set_layer_visible",
                         set_layer_visible(lua_buffer[1], layer, flag), caught)
        \/ CanvasCall("clear", clear(lua_buffer[1]), caught)

Next ==
    \/ /\ pc = "script" /\ ops < MaxOps /\ ops' = ops + 1 /\ UNCHANGED <<txt, sync>>
       /\ lua_buffer = <<>>
       /\ \E size \in BufferSizes : new_buffer(size)
    \/ /\ pc = "script" /\ ops < MaxOps /\ ops' = ops + 1 /\ UNCHANGED <<txt, sync>>
       /\ lua_buffer = <<>>
       /\ \E file \in Files, caught \in BOOLEAN : script_load_buffer(file, caught)
    \/ /\ pc = "script" /\ ops < MaxOps /\ ops' = ops + 1 /\ UNCHANGED <<txt, sync>>
       /\ lua_buffer # <<>>
       /\ CanvasStep
    \/ /\ pc = "script" /\ ops < MaxOps /\ ops' = ops + 1 /\ UNCHANGED <<txt, sync>>
       /\ lua_buffer # <<>>
       /\ \E arg \in NextFrameArgs, caught \in BOOLEAN : script_next_frame(arg, caught)
    \/ /\ pc = "script" /\ ops < MaxOps /\ ops' = ops + 1 /\ UNCHANGED <<txt, sync>>
       /\ \E w \in GlobalWrites : set_global(w[1], w[2])
    \/ /\ pc = "script" /\ ops < MaxOps /\ ops' = ops + 1 /\ UNCHANGED <<txt, sync>>
       /\ script_error
    \/ /\ pc = "script"
       /\ UNCHANGED <<ops, txt, sync>>
       /\ script_end

Spec == InitScript /\ [][Next]_vars

----------------------------------------------------------------------------
(* SpecLimit: a script that creates its canvas and then only captures.      *)

NextLimit ==
    \/ /\ pc = "script"
       /\ lua_buffer = <<>>
       /\ UNCHANGED <<ops, txt, sync>>
       /\ \E size \in BufferSizes : new_buffer(size)
    \/ /\ pc = "script"
       /\ lua_buffer # <<>>
       /\ UNCHANGED <<ops, txt, sync>>
       /\ \E caught \in BOOLEAN : script_next_frame("canvas", caught)
    \/ /\ pc = "script"
       /\ UNCHANGED <<ops, txt, sync>>
       /\ script_end

SpecLimit == InitScript /\ [][NextLimit]_vars

----------------------------------------------------------------------------
(* Playback: the public operations of Animator, each one call made while    *)
(* holding the Animator's lock.                                             *)

script_vars == <<lua_buffer, globals, pc, run_result, ops, txt>>

\* Mutant of render_buffer: the copy is not marked as a terminal buffer.
render_buffer_unmarked(scene) ==
    [Buffer_new(get_size(scene)) EXCEPT
        !.layers = scene.layers,
        !.terminal_state = scene.terminal_state,
        !.palette = scene.palette,
        !.font_table = scene.font_table]

\* The buffer display_frame hands to BufferView::set_buffer.
render_buffer(scene) ==
    [Buffer_new(get_size(scene)) EXCEPT
        !.is_terminal_buffer = TRUE,
        !.layers = scene.layers,
        !.terminal_state = scene.terminal_state,
        !.palette = scene.palette,
        !.font_table = scene.font_table]

\* Animator::display_frame with cur_frame = cf: the renderer's buffer after
\* the call and the settings returned.
display_frame(cf) ==
    IF cf < NumFrames
    THEN [view |-> <<render_buffer(FrameBuffer(FrameAt(cf)))>>,
          settings |-> FrameAt(cf).settings]
    ELSE [view |-> buffer_view, settings |-> MonitorSettings_default]

\* Mutants of next_frame: the end of a sequence without looping resets to
\* frame 0; the loop flag is ignored; a wrap takes frame 0's duration; the
\* index is not clamped at the end; the advance catches up with the clock.
next_frame_stop_reset ==
    LET c == cur_frame + 1
    IN IF c >= NumFrames
       THEN IF is_loop
            THEN [cur_frame |-> 0, is_playing |-> is_playing, speed |-> DEFAULT_SPEEED]
            ELSE [cur_frame |-> 0, is_playing |-> FALSE, speed |-> speed]
       ELSE [cur_frame |-> c, is_playing |-> is_playing, speed |-> FrameAt(c).speed]

next_frame_no_wrap ==
    LET c == cur_frame + 1
    IN IF c >= NumFrames
       THEN [cur_frame |-> c - 1, is_playing |-> FALSE, speed |-> speed]
       ELSE [cur_frame |-> c, is_playing |-> is_playing, speed |-> FrameAt(c).speed]

next_frame_wrap_own_duration ==
    LET c == cur_frame + 1
    IN IF c >= NumFrames
       THEN IF is_loop
            THEN [cur_frame |-> 0, is_playing |-> is_playing,
                  speed |-> IF NumFrames > 0 THEN FrameAt(0).speed ELSE DEFAULT_SPEEED]
            ELSE [cur_frame |-> c - 1, is_playing |-> FALSE, speed |-> speed]
       ELSE [cur_frame |-> c, is_playing |-> is_playing, speed |-> FrameAt(c).speed]

next_frame_no_clamp ==
    LET c == cur_frame + 1
    IN IF c >= NumFrames
       THEN IF is_loop
            THEN [cur_frame |-> 0, is_playing |-> is_playing, speed |-> DEFAULT_SPEEED]
            ELSE [cur_frame |-> c, is_playing |-> FALSE, speed |-> speed]
       ELSE [cur_frame |-> c, is_playing |-> is_playing, speed |-> FrameAt(c).speed]

next_frame_catch_up ==
    LET c == cur_frame + (elapsed \div speed)
    IN IF c >= NumFrames
       THEN IF is_loop
            THEN [cur_frame |-> 0, is_playing |-> is_playing, speed |-> DEFAULT_SPEEED]
            ELSE [cur_frame |-> IF NumFrames = 0 THEN 0 ELSE NumFrames - 1,
                  is_playing |-> FALSE, speed |-> speed]
       ELSE [cur_frame |-> c, is_playing |-> is_playing, speed |-> FrameAt(c).speed]

\* Mutant of next_frame: an advance onto a frame in range leaves the active
\* duration alone.
next_frame_keep_duration ==
    LET c == cur_frame + 1
    IN IF c >= NumFrames
       THEN IF is_loop
            THEN [cur_frame |-> 0, is_playing |-> is_playing, speed |-> DEFAULT_SPEEED]
            ELSE [cur_frame |-> c - 1, is_playing |-> FALSE, speed |-> speed]
       ELSE [cur_frame |-> c, is_playing |-> is_playing, speed |-> speed]

\* Mutant of next_frame: the end of the sequence is tested with > for >=.
next_frame_late_end ==
    LET c == cur_frame + 1
    IN IF c > NumFrames
       THEN IF is_loop
            THEN [cur_frame |-> 0, is_playing |-> is_playing, speed |-> DEFAULT_SPEEED]
            ELSE [cur_frame |-> c - 1, is_playing |-> FALSE, speed |-> speed]
       ELSE [cur_frame |-> c, is_playing |-> is_playing,
             speed |-> IF c < NumFrames THEN FrameAt(c).speed ELSE speed]

\* Animator::next_frame: cur_frame, is_playing and speed after the call.
next_frame ==
    LET c == cur_frame + 1
    IN IF c >= NumFrames
       THEN IF is_loop
            THEN [cur_frame |-> 0, is_playing |-> is_playing, speed |-> DEFAULT_SPEEED]
            ELSE [cur_frame |-> c - 1, is_playing |-> FALSE, speed |-> speed]
       ELSE [cur_frame |-> c, is_playing |-> is_playing, speed |-> FrameAt(c).speed]

\* Mutant of advance_due: the comparison is not strict.
advance_due_at_equal == is_playing /\ elapsed >= speed

\* Mutant of advance_due: a paused engine advances too.
advance_due_while_paused == elapsed > speed

\* The condition under which update_frame advances.
advance_due == is_playing /\ elapsed > speed

update_frame ==
    /\ pc = "returned" /\ run_result.engine
    /\ IF advance_due
       THEN LET nf == next_frame
                d == display_frame(nf.cur_frame)
            IN /\ cur_frame' = nf.cur_frame
               /\ is_playing' = nf.is_playing
               /\ speed' = nf.speed
               /\ elapsed' = 0
               /\ current_monitor_settings' = d.settings
               /\ buffer_view' = d.view
               /\ ret' = RetSettings("update_frame", d.settings)
       ELSE /\ ret' = RetSettings("update_frame", current_monitor_settings)
            /\ UNCHANGED <<cur_frame, is_playing, speed, elapsed,
                           current_monitor_settings, buffer_view>>
    /\ UNCHANGED <<frames, is_loop, script_vars>>

\* Mutant of start_playback: playback resumes at the current index.
start_playback_resume ==
    /\ pc = "returned" /\ run_result.engine
    /\ is_playing' = TRUE
    /\ elapsed' = 0
    /\ cur_frame' = cur_frame
    /\ buffer_view' = display_frame(cur_frame).view
    /\ ret' = RetSettings("start_playback", display_frame(cur_frame).settings)
    /\ UNCHANGED <<frames, current_monitor_settings, is_loop, speed, script_vars>>

start_playback ==
    /\ pc = "returned" /\ run_result.engine
    /\ is_playing' = TRUE
    /\ elapsed' = 0
    /\ cur_frame' = 0
    /\ buffer_view' = display_frame(0).view
    /\ ret' = RetSettings("start_playback", display_frame(0).settings)
    /\ UNCHANGED <<frames, current_monitor_settings, is_loop, speed, script_vars>>

\* Mutant of call_display_frame: the frame shown is moved out of the sequence.
call_display_frame_moves ==
    /\ pc = "returned" /\ run_result.engine
    /\ buffer_view' = display_frame(cur_frame).view
    /\ ret' = RetSettings("display_frame", display_frame(cur_frame).settings)
    /\ frames' = IF frames = <<>> THEN frames ELSE Tail(frames)
    /\ UNCHANGED <<current_monitor_settings, cur_frame, is_loop, is_playing, speed,
                   elapsed, script_vars>>

call_display_frame ==
    /\ pc = "returned" /\ run_result.engine
    /\ buffer_view' = display_frame(cur_frame).view
    /\ ret' = RetSettings("display_frame", display_frame(cur_frame).settings)
    /\ UNCHANGED <<animator_vars, script_vars>>

\* Mutant of set_cur_frame: the active duration is left alone.
set_cur_frame_keep_speed(i) ==
    /\ pc = "returned" /\ run_result.engine
    /\ cur_frame' = i
    /\ IF i < NumFrames
       THEN /\ ret' = Ret("set_cur_frame", TRUE, "")
            /\ UNCHANGED pc
       ELSE /\ ret' = Ret("set_cur_frame", FALSE, "index out of bounds")
            /\ pc' = "panicked"
    /\ UNCHANGED <<frames, current_monitor_settings, is_loop, is_playing, speed, elapsed,
                   buffer_view, lua_buffer, globals, run_result, ops, txt>>

\* set_cur_frame(i).  With i out of range the index is stored and the read of
\* frames[i] panics: the call never returns.
set_cur_frame(i) ==
    /\ pc = "returned" /\ run_result.engine
    /\ cur_frame' = i
    /\ IF i < NumFrames
       THEN /\ speed' = FrameAt(i).speed
            /\ ret' = Ret("set_cur_frame", TRUE, "")
            /\ UNCHANGED pc
       ELSE /\ ret' = Ret("set_cur_frame", FALSE, "index out of bounds")
            /\ pc' = "panicked"
            /\ UNCHANGED speed
    /\ UNCHANGED <<frames, current_monitor_settings, is_loop, is_playing, elapsed,
                   buffer_view, lua_buffer, globals, run_result, ops, txt>>

set_is_loop(flag) ==
    /\ pc = "returned" /\ run_result.engine
    /\ is_loop' = flag
    /\ ret' = Ret("set_is_loop", TRUE, "")
    /\ UNCHANGED <<frames, current_monitor_settings, cur_frame, is_playing, speed, elapsed,
                   buffer_view, script_vars>>

set_is_playing(flag) ==
    /\ pc = "returned" /\ run_result.engine
    /\ is_playing' = flag
    /\ ret' = Ret("set_is_playing", TRUE, "")
    /\ UNCHANGED <<frames, current_monitor_settings, cur_frame, is_loop, speed, elapsed,
                   buffer_view, script_vars>>

\* Mutant of set_speed: the last-advance timestamp is reset as well.
set_speed_restarts_clock(ms) ==
    /\ pc = "returned" /\ run_result.engine
    /\ speed' = ms
    /\ elapsed' = 0
    /\ ret' = Ret("set_speed", TRUE, "")
    /\ UNCHANGED <<frames, current_monitor_settings, cur_frame, is_loop, is_playing,
                   buffer_view, script_vars>>

set_speed(ms) ==
    /\ pc = "returned" /\ run_result.engine
    /\ speed' = ms
    /\ ret' = Ret("set_speed", TRUE, "")
    /\ UNCHANGED <<frames, current_monitor_settings, cur_frame, is_loop, is_playing, elapsed,
                   buffer_view, script_vars>>

\* Time passes between two calls.
Tick(d) ==
    /\ pc = "returned"
    /\ elapsed + d <= MaxElapsed
    /\ elapsed' = elapsed + d
    /\ UNCHANGED <<frames, current_monitor_settings, cur_frame, is_loop, is_playing, speed,
                   buffer_view, script_vars, ret>>

----------------------------------------------------------------------------
(* SpecPlay starts where run has returned Ok(animator) and the host holds    *)
(* the Animator.  frames is a public field: the sequences tried are those of *)
(* up to MaxPlayFrames frames of the kinds below.                            *)

PlayCanvas == Buffer_create(<<2, 1>>)

FrameKinds ==
    {capture_frame(PlayCanvas, MonitorSettings_neutral, DEFAULT_SPEEED),
     capture_frame(PlayCanvas, [MonitorSettings_neutral EXCEPT !.monitor_type = 1], 250)}

RECURSIVE PushAll(_, _)
PushAll(runs, fs) ==
    IF fs = <<>> THEN runs ELSE PushAll(PushFrame(runs, Head(fs)), Tail(fs))

PlayFrames ==
    {PushAll(<<>>, fs) : fs \in UNION {[1..n -> FrameKinds] : n \in 0..MaxPlayFrames}}

InitPlay ==
    /\ lua_buffer = <<>>
    /\ globals = seed_globals(MonitorSettings_neutral)
    /\ frames \in PlayFrames
    /\ current_monitor_settings = MonitorSettings_neutral
    /\ cur_frame = 0
    /\ is_loop = FALSE
    /\ is_playing = FALSE
    /\ speed = DEFAULT_SPEEED
    /\ elapsed = 0
    /\ buffer_view = <<>>
    /\ pc = "returned"
    /\ run_result = run_return(TRUE, "")
    /\ ret = Ret("run", TRUE, "")
    /\ ops = 0
    /\ txt = <<>>
    /\ sync = Unlocked

NextPlay ==
    \/ update_frame /\ UNCHANGED sync
    \/ start_playback /\ UNCHANGED sync
    \/ call_display_frame /\ UNCHANGED sync
    \/ \E i \in 0..NumFrames : set_cur_frame(i) /\ UNCHANGED sync
    \/ \E flag \in BOOLEAN : set_is_loop(flag) /\ UNCHANGED sync
    \/ \E flag \in BOOLEAN : set_is_playing(flag) /\ UNCHANGED sync
    \/ \E ms \in Speeds : set_speed(ms) /\ UNCHANGED sync
    \/ \E d \in TickSteps : Tick(d) /\ UNCHANGED sync

SpecPlay == InitPlay /\ [][NextPlay]_vars

----------------------------------------------------------------------------
(* Claims about capture, checked under SpecLimit *)

\* C1: every capture made while fewer than MAX_FRAMES frames are stored
\* succeeds and appends exactly one frame; a capture made when MAX_FRAMES
\* frames are stored fails with the frame-limit error and leaves the count
\* at MAX_FRAMES.
C1_CaptureUpToLimit ==
    [][(\E caught \in BOOLEAN : script_next_frame("canvas", caught)) =>
          IF NumFrames < MAX_FRAMES
          THEN ret'.ok /\ NumFrames' = NumFrames + 1
          ELSE /\ ~ret'.ok
               /\ ret'.err = "Maximum number of frames reached"
               /\ NumFrames' = NumFrames]_vars

\* C2: in every reachable state the frame sequence holds at most MAX_FRAMES
\* frames.
C2_AtMostMaxFrames == NumFrames <= MAX_FRAMES

----------------------------------------------------------------------------
(* Claims about playback, checked under SpecPlay *)

\* C3: with more than one frame and is_loop = false, an update_frame call
\* made after more than the active duration has elapsed moves the index from
\* i to i+1 while i < N-1 and keeps playing; at N-1 it keeps the index and
\* sets is_playing to false; an update_frame call that is not due (too early,
\* or not playing any more) leaves index and is_playing as they are, so the
\* index stays at N-1.
C3_NoLoopPlaysToLastFrame ==
    [][(update_frame /\ ~is_loop /\ NumFrames > 1 /\ cur_frame < NumFrames) =>
          IF advance_due
          THEN IF cur_frame < NumFrames - 1
               THEN cur_frame' = cur_frame + 1 /\ is_playing'
               ELSE cur_frame' = cur_frame /\ ~is_playing'
          ELSE cur_frame' = cur_frame /\ is_playing' = is_playing]_vars

\* update_frame has stopped a sequence of three or more frames on its last.
C3_Witness ==
    /\ ret.op = "update_frame"
    /\ NumFrames > 2
    /\ cur_frame = NumFrames - 1
    /\ ~is_loop /\ ~is_playing
    /\ elapsed = 0
    /\ current_monitor_settings = FrameAt(cur_frame).settings

\* C4: with more than one frame and is_loop = true, an update_frame call made
\* at index N-1 after more than the active duration has elapsed sets the
\* index to 0 and leaves is_playing true.
C4_LoopWraps ==
    [][(update_frame /\ is_loop /\ NumFrames > 1 /\ cur_frame = NumFrames - 1
          /\ advance_due) =>
          cur_frame' = 0 /\ is_playing']_vars

\* update_frame has wrapped a looping two-frame sequence: the settings of
\* frame 0, which differ from frame 1's, can only have been stored by an
\* advance that landed on frame 0.
C4_Witness ==
    /\ ret.op = "update_frame"
    /\ NumFrames = 2
    /\ FrameAt(0).settings # FrameAt(1).settings
    /\ cur_frame = 0
    /\ current_monitor_settings = FrameAt(0).settings
    /\ is_loop /\ is_playing
    /\ elapsed = 0

\* C5 as claimed: with a single frame and looping enabled, after every
\* update_frame advance the index is 0, is_playing is true and the active
\* duration equals frame 0's stored duration.
C5_SingleFrameLoopKeepsDuration ==
    [][(update_frame /\ is_loop /\ NumFrames = 1 /\ advance_due) =>
          cur_frame' = 0 /\ is_playing' /\ speed' = FrameAt(0).speed]_vars

\* C5 as amended: with a single frame and looping enabled, after every
\* update_frame advance the index is 0, is_playing is true and the active
\* duration is the default DEFAULT_SPEEED, whatever frame 0's stored
\* duration is.
C5_SingleFrameLoopDefaultDuration ==
    [][(update_frame /\ is_loop /\ NumFrames = 1 /\ advance_due) =>
          cur_frame' = 0 /\ is_playing' /\ speed' = DEFAULT_SPEEED]_vars

\* update_frame has replayed the only frame, one of 250 ms whose settings
\* only an advance stores, and the active duration is the default.
C5_Witness ==
    /\ ret.op = "update_frame"
    /\ NumFrames = 1
    /\ FrameAt(0).speed = 250
    /\ current_monitor_settings = FrameAt(0).settings
    /\ cur_frame = 0
    /\ is_loop /\ is_playing
    /\ elapsed = 0
    /\ speed = DEFAULT_SPEEED

\* C6: an update_frame call leaves the index, or moves it to index+1, or
\* (looping, at the last frame) to 0, whatever the time elapsed.
C6_OneStepPerCall ==
    [][update_frame =>
          \/ cur_frame' = cur_frame
          \/ cur_frame' = cur_frame + 1 /\ cur_frame' < NumFrames
          \/ cur_frame' = 0 /\ is_loop /\ cur_frame + 1 >= NumFrames]_vars

\* update_frame has advanced to frame 1 of at least three.
C6_Witness ==
    /\ ret.op = "update_frame"
    /\ NumFrames > 2
    /\ cur_frame = 1
    /\ is_playing
    /\ elapsed = 0
    /\ FrameAt(0).settings # FrameAt(1).settings
    /\ current_monitor_settings = FrameAt(1).settings

\* The state set_cur_frame leaves, while no set_speed overrides it: the
\* engine plays and the active duration is the current frame's.
Seeked ==
    /\ ret.op \in {"set_cur_frame", "update_frame"}
    /\ is_playing
    /\ cur_frame < NumFrames
    /\ speed = FrameAt(cur_frame).speed

\* C7 as claimed: after set_cur_frame(i), an update_frame call made when at
\* most frame i's duration has elapsed keeps the index, and one made when
\* more has elapsed advances the index by exactly one.
C7_SeekThenAdvanceByOne ==
    [][(update_frame /\ Seeked) =>
          IF elapsed <= speed
          THEN cur_frame' = cur_frame
          ELSE cur_frame' = cur_frame + 1]_vars

\* C7 as amended: the same, but past the duration the index advances by one
\* only when i is not the last frame; at the last frame it wraps to 0 when
\* looping and otherwise stays, and playback stops.
C7_SeekThenOneStep ==
    [][(update_frame /\ Seeked) =>
          IF elapsed <= speed
          THEN cur_frame' = cur_frame /\ is_playing' /\ speed' = speed
          ELSE IF cur_frame + 1 < NumFrames
               THEN cur_frame' = cur_frame + 1 /\ is_playing'
               ELSE IF is_loop
                    THEN cur_frame' = 0 /\ is_playing'
                    ELSE cur_frame' = cur_frame /\ ~is_playing']_vars

\* After a seek to a 250 ms frame that is not the last, an update_frame call
\* has left the index alone with exactly 250 ms elapsed.
C7_Witness ==
    /\ ret.op = "update_frame"
    /\ is_playing
    /\ cur_frame + 1 < NumFrames
    /\ cur_frame > 0
    /\ FrameAt(cur_frame).speed = 250
    /\ speed = 250
    /\ elapsed = 250
    /\ current_monitor_settings # FrameAt(cur_frame).settings

----------------------------------------------------------------------------
(* Claims about the canvas and run, checked under Spec *)

\* C8: once a frame is captured, no later step of the script, and so no call
\* on the canvas, changes the layers, the palette or the font table that the
\* frame holds.
C8_CapturedFramesDecoupled ==
    [][\A i \in 0..(NumFrames - 1) :
          /\ (FrameBuffer(FrameAt(i)))'.layers = FrameBuffer(FrameAt(i)).layers
          /\ (FrameBuffer(FrameAt(i)))'.palette = FrameBuffer(FrameAt(i)).palette
          /\ (FrameBuffer(FrameAt(i)))'.font_table = FrameBuffer(FrameAt(i)).font_table]_vars

CanvasWrites ==
    {"set_char", "print", "set_fg", "set_bg", "fg_rgb", "bg_rgb",
     "set_layer_position", "set_layer_visible", "width", "height", "clear"}

\* A call has changed the canvas after a capture: the canvas is no longer
\* what the frame holds.
C8_Witness ==
    /\ NumFrames > 0
    /\ lua_buffer # <<>>
    /\ ret.op \in CanvasWrites /\ ret.ok
    /\ \/ lua_buffer[1].buffer.layers # FrameAt(0).buffer.layers
       \/ lua_buffer[1].buffer.palette # FrameAt(0).buffer.palette

\* The result of a call that was refused for its layer index.
Rejected(lb, r, err) == ~r.ok /\ ~r.panic /\ r.err = err /\ r.lb = lb

\* C9: with the active layer index not below layer_count, set_char and
\* get_char return the out-of-range error; with a layer argument not below
\* layer_count, so do set_layer_position, set_layer_visible and the
\* assignment to layer; and the call that returns it leaves the LuaBuffer
\* (canvas, cursor, active layer) as it was.
C9_OutOfRangeLayerRejected ==
    [][(pc = "script" /\ lua_buffer # <<>>) =>
          LET lb == lua_buffer[1]
          IN /\ lb.cur_layer >= layer_count(lb) =>
                   /\ \A pos \in Positions, str \in CharArgs :
                         Rejected(lb, set_char(lb, pos, str), CurLayerError)
                   /\ \A pos \in Positions :
                         Rejected(lb, get_char(lb, pos), CurLayerError)
                   /\ ret'.op \in {"set_char", "get_char"} =>
                         ~ret'.ok /\ ret'.err = CurLayerError /\ lua_buffer' = lua_buffer
             /\ \A layer \in LayerArgs :
                   layer >= layer_count(lb) =>
                      /\ \A offset \in OffsetArgs :
                            Rejected(lb, set_layer_position(lb, layer, offset), LayerError)
                      /\ Rejected(lb, set_layer(lb, layer), LayerError)
             /\ \A layer \in VisibleLayerArgs, flag \in BOOLEAN :
                   as_usize(layer) >= layer_count(lb) =>
                      Rejected(lb, set_layer_visible(lb, layer, flag), LayerError)
             /\ (ret'.op \in {"set_layer_position", "set_layer_visible", "layer"}
                   /\ ~ret'.ok) =>
                   ret'.err = LayerError /\ lua_buffer' = lua_buffer]_vars

\* set_char has been refused on a canvas whose active layer index is not
\* below layer_count.
C9_Witness ==
    /\ lua_buffer # <<>>
    /\ lua_buffer[1].cur_layer >= layer_count(lua_buffer[1])
    /\ ret.op = "set_char"
    /\ ~ret.ok /\ ret.err = CurLayerError
    /\ pc = "script"

----------------------------------------------------------------------------
(* Claims about playback and the canvas, continued *)

ScenarioCanvas ==
    LET created == [cur_layer |-> 0, caret |-> Caret_default,
                    buffer |-> Buffer_create(<<4, 2>>)]
        coloured == fg_rgb(created, <<255, 0, 0>>).lb
    IN set_char(coloured, <<0, 0>>, <<65>>).lb

\* The frame pushed last.
LastFrame == FrameAt(NumFrames - 1)

\* The string a cell of a captured buffer decodes to.
DecodedCell(buffer, layer, pos) ==
    convert_to_unicode([buffer |-> buffer], Layer_get_char(buffer.layers[layer], pos))

\* C12: a next_frame(canvas) that succeeds appends one frame whose layers
\* (so every cell), palette and font table are those of the canvas at that
\* moment; on the canvas of new_buffer(4,2), fg_rgb(255,0,0),
\* set_char(0,0,"A") it yields exactly one frame, whose layer-0 cell at (0,0)
\* decodes to "A" and has a foreground index naming palette entry (255,0,0).
C12_FrameEqualsCanvas ==
    [][\A caught \in BOOLEAN :
          (script_next_frame("canvas", caught) /\ ret'.ok) =>
             /\ NumFrames' = NumFrames + 1
             /\ (FrameBuffer(LastFrame))'.layers = lua_buffer[1].buffer.layers
             /\ (FrameBuffer(LastFrame))'.palette = lua_buffer[1].buffer.palette
             /\ (FrameBuffer(LastFrame))'.font_table = lua_buffer[1].buffer.font_table
             /\ (lua_buffer[1] = ScenarioCanvas /\ NumFrames = 0) =>
                   /\ NumFrames' = 1
                   /\ (DecodedCell(FrameBuffer(LastFrame), 1, <<0, 0>>))' = <<65>>
                   /\ (LET b == FrameBuffer(LastFrame)
                           cell == Layer_get_char(b.layers[1], <<0, 0>>)
                       IN b.palette[cell.attribute.fg + 1])' = <<255, 0, 0>>]_vars

\* The scenario's script has run: its canvas has been captured once.
C12_Witness ==
    /\ lua_buffer = <<ScenarioCanvas>>
    /\ ret.op = "next_frame" /\ ret.ok
    /\ NumFrames = 1
    /\ ops = 4
    /\ Layer_get_char(FrameAt(0).buffer.layers[1], <<0, 0>>).attribute.fg = 16

----------------------------------------------------------------------------
(* SpecPre: the rewriting of the script text at the start of run.  A text   *)
(* is a sequence of characters, each a one-character string.                *)

MaxPieces == 3       \* pieces a script text of SpecPre is put together from

HexLower == <<"0", "1", "2", "3", "4", "5", "6", "7", "8", "9",
              "a", "b", "c", "d", "e", "f">>
HexUpper == <<"0", "1", "2", "3", "4", "5", "6", "7", "8", "9",
              "A", "B", "C", "D", "E", "F">>

\* [0-9a-fA-F]
IsHex(c) == \E v \in 1..16 : c = HexLower[v] \/ c = HexUpper[v]

HexValue(c) == (CHOOSE v \in 1..16 : c = HexLower[v] \/ c = HexUpper[v]) - 1

\* u32::from_str_radix(pair, 16) of a two-digit capture group
from_str_radix(s, i) == 16 * HexValue(s[i]) + HexValue(s[i + 1])

\* The decimal digits "{}" formats a u32 with.
RECURSIVE to_string(_)
to_string(n) ==
    IF n < 10 THEN <<HexLower[n + 1]>>
    ELSE Append(to_string(n \div 10), HexLower[(n % 10) + 1])

\* The regex matches at position i of s: '#' and six hexadecimal digits.
matches_at(s, i) ==
    /\ i + 6 <= Len(s)
    /\ s[i] = "#"
    /\ \A k \in 1..6 : IsHex(s[i + k])

\* format!("{},{},{}", r, g, b) of the match at position i
replacement(s, i) ==
    to_string(from_str_radix(s, i + 1)) \o <<",">> \o
    to_string(from_str_radix(s, i + 3)) \o <<",">> \o
    to_string(from_str_radix(s, i + 5))

\* Mutant of replace_all: Regex::replace, which rewrites the first match only.
RECURSIVE replace_first(_, _)
replace_first(s, i) ==
    IF i > Len(s) THEN <<>>
    ELSE IF matches_at(s, i)
    THEN replacement(s, i) \o SubSeq(s, i + 7, Len(s))
    ELSE <<s[i]>> \o replace_first(s, i + 1)

\* re.replace_all(in_txt, ..) from position i on: the matches are taken left
\* to right, each search starting behind the match before.
RECURSIVE replace_all(_, _)
replace_all(s, i) ==
    IF i > Len(s) THEN <<>>
    ELSE IF matches_at(s, i)
    THEN replacement(s, i) \o replace_all(s, i + 7)
    ELSE <<s[i]>> \o replace_all(s, i + 1)

\* run rewrites in_txt into the text it hands to lua.load.
preprocess ==
    /\ pc = "preprocess"
    /\ txt' = replace_all(txt, 1)
    /\ pc' = "script"
    /\ UNCHANGED <<lua_buffer, globals, frames, current_monitor_settings, play_vars,
                   run_result, ret, ops, sync>>

\* Pieces of script text: colours in either case, a colour one digit short,
\* a digit that completes it, a lone '#', a '#' before a letter that is no
\* hexadecimal digit, plain text.
Pieces ==
    {<<"#", "F", "F", "0", "0", "A", "A">>,
     <<"#", "0", "a", "1", "b", "2", "C">>,
     <<"#", "F", "F", "0", "0", "A">>,
     <<"9">>,
     <<"#">>,
     <<"#", "1", "g">>,
     <<"x">>}

RECURSIVE Concat(_)
Concat(ps) == IF ps = <<>> THEN <<>> ELSE Head(ps) \o Concat(Tail(ps))

Texts == {Concat(ps) : ps \in UNION {[1..n -> Pieces] : n \in 0..MaxPieces}}

InitPre ==
    /\ txt \in Texts
    /\ pc = "preprocess"
    /\ lua_buffer = <<>>
    /\ globals = seed_globals(MonitorSettings_neutral)
    /\ frames = <<>>
    /\ current_monitor_settings = MonitorSettings_neutral
    /\ cur_frame = 0
    /\ is_loop = FALSE
    /\ is_playing = FALSE
    /\ speed = DEFAULT_SPEEED
    /\ elapsed = 0
    /\ buffer_view = <<>>
    /\ run_result = NoResult
    /\ ret = Ret("run", TRUE, "")
    /\ ops = 0
    /\ sync = Unlocked

NextPre == preprocess

SpecPre == InitPre /\ [][NextPre]_vars

\* The positions of s where '#' is followed by six hexadecimal digits.
Occurrences(s) ==
    {i \in 1..Len(s) :
        /\ s[i] = "#"
        /\ i + 6 <= Len(s)
        /\ \A k \in 1..6 : IsHex(s[i + k])}

\* What position i of s contributes to the rewritten text: the decimal
\* triple when an occurrence starts there, nothing when an occurrence covers
\* it, its own character otherwise.
Contribution(s, i) ==
    IF i \in Occurrences(s)
    THEN replacement(s, i)
    ELSE IF \E j \in Occurrences(s) : j < i /\ i <= j + 6
    THEN <<>>
    ELSE <<s[i]>>

RECURSIVE Rewritten(_, _)
Rewritten(s, i) ==
    IF i > Len(s) THEN <<>> ELSE Contribution(s, i) \o Rewritten(s, i + 1)

\* C13: preprocessing replaces every occurrence of '#' followed by six
\* hexadecimal digits of either case by the three pairs in decimal joined by
\* commas and leaves every other character as it is; "#FF00AA" becomes
\* "255,0,170".
C13_HexColoursRewritten ==
    [][preprocess =>
          /\ txt' = Rewritten(txt, 1)
          /\ Occurrences(txt) = {} => txt' = txt
          /\ txt = <<"#", "F", "F", "0", "0", "A", "A">> =>
                txt' = <<"2", "5", "5", ",", "0", ",", "1", "7", "0">>]_vars

\* A text with two colours, the second in lower and upper case, has been
\* rewritten, the 'x' between them kept.
C13_Witness ==
    /\ pc = "script"
    /\ txt = <<"2", "5", "5", ",", "0", ",", "1", "7", "0", "x",
               "1", "0", ",", "2", "7", ",", "4", "4">>

----------------------------------------------------------------------------
(* Claims about the canvas, checked under Spec *)

\* Characters a script passes to set_char: "A", U+00E9 (0x82 in CP437),
\* U+0082 (which CP437 lacks) and U+4E2D (beyond any 8-bit code).
RoundTripChars == {65, 233, 130, 20013}

----------------------------------------------------------------------------
(* Claims about playback, checked under SpecPlay *)

\* C15: start_playback sets is_playing to true and the index to 0 and
\* resets the last-advance timestamp to now; with a frame 0 to show, the
\* renderer then holds a terminal buffer with frame 0's layers, palette and
\* font table, and the call returns frame 0's monitor settings.
C15_StartPlayback ==
    [][start_playback =>
          /\ is_playing'
          /\ cur_frame' = 0
          /\ elapsed' = 0
          /\ NumFrames > 0 =>
                /\ Len(buffer_view') = 1
                /\ buffer_view'[1].is_terminal_buffer
                /\ buffer_view'[1].layers = FrameBuffer(FrameAt(0)).layers
                /\ buffer_view'[1].palette = FrameBuffer(FrameAt(0)).palette
                /\ buffer_view'[1].font_table = FrameBuffer(FrameAt(0)).font_table
                /\ ret'.settings = <<FrameAt(0).settings>>]_vars

\* start_playback has been called on a sequence whose first two frames
\* carry different settings.
C15_Witness ==
    /\ ret.op = "start_playback"
    /\ NumFrames >= 2
    /\ FrameAt(0).settings # FrameAt(1).settings
    /\ ret.settings = <<FrameAt(0).settings>>
    /\ is_playing
    /\ cur_frame = 0
    /\ elapsed = 0
    /\ buffer_view # <<>>

\* C16: display_frame changes no Animator state.  With the index in range
\* the renderer is given a buffer marked as a terminal buffer that holds the
\* layers, palette and font table of the current frame, and the frame's
\* stored MonitorSettings are returned; with the index out of range or the
\* sequence empty the renderer is given nothing and the default
\* MonitorSettings are returned.
C16_DisplayFrame ==
    [][call_display_frame =>
          /\ UNCHANGED animator_vars
          /\ pc' = pc
          /\ IF cur_frame < NumFrames
             THEN /\ Len(buffer_view') = 1
                  /\ buffer_view'[1].is_terminal_buffer
                  /\ buffer_view'[1].layers = FrameBuffer(FrameAt(cur_frame)).layers
                  /\ buffer_view'[1].palette = FrameBuffer(FrameAt(cur_frame)).palette
                  /\ buffer_view'[1].font_table = FrameBuffer(FrameAt(cur_frame)).font_table
                  /\ ret'.settings = <<FrameAt(cur_frame).settings>>
             ELSE /\ buffer_view' = buffer_view
                  /\ ret'.settings = <<MonitorSettings_default>>
          /\ \A cf \in NumFrames..(NumFrames + 1) :
                /\ display_frame(cf).view = buffer_view
                /\ display_frame(cf).settings = MonitorSettings_default]_vars

\* display_frame has shown the second frame of a sequence, whose settings
\* differ from the first frame's.
C16_Witness ==
    /\ ret.op = "display_frame"
    /\ NumFrames >= 2
    /\ cur_frame = 1
    /\ FrameAt(0).settings # FrameAt(1).settings
    /\ ret.settings = <<FrameAt(1).settings>>
    /\ buffer_view # <<>>

\* C17 as claimed: a seek to the frame that is already current,
\* set_cur_frame(get_cur_frame()), leaves the active duration unchanged,
\* whatever set_speed calls, loop wraps and advances came before.
C17_SeekCurrentKeepsDuration ==
    [][\A i \in 0..NumFrames :
          (set_cur_frame(i) /\ i = cur_frame /\ i < NumFrames) => speed' = speed]_vars

\* C17 as amended: a seek to the frame that is already current leaves the
\* index where it is and sets the active duration to that frame's stored
\* duration; the active duration is unchanged exactly when it was that
\* stored duration before the call.
C17_SeekCurrentTakesStoredDuration ==
    [][\A i \in 0..NumFrames :
          (set_cur_frame(i) /\ i = cur_frame /\ i < NumFrames) =>
             /\ cur_frame' = cur_frame
             /\ speed' = FrameAt(cur_frame).speed
             /\ (speed' = speed) <=> (speed = FrameAt(cur_frame).speed)]_vars

\* A sequence of one frame of 250 ms plays at 250 ms: only a seek to the
\* current frame, the only frame there is, sets that duration.
C17_Witness ==
    /\ ret.op = "set_cur_frame" /\ ret.ok
    /\ NumFrames = 1
    /\ cur_frame = 0
    /\ FrameAt(0).speed = 250
    /\ speed = 250

----------------------------------------------------------------------------
(* Claims about the palette and the encoding, checked under Spec *)

\* C18 as claimed: no step of a script, and so no call on its canvas, lowers
\* the number of palette entries.
C18_PaletteNeverShrinks ==
    [][lua_buffer # <<>> =>
          Len(lua_buffer'[1].buffer.palette) >= Len(lua_buffer[1].buffer.palette)]_vars

\* C18 as amended: clear() replaces the palette by the palette of a new
\* buffer, whatever had been added to it; every other step of a script
\* keeps every palette entry at its index and so never shrinks the palette.
C18_PaletteShrinksOnlyOnClear ==
    [][lua_buffer # <<>> =>
          LET before == lua_buffer[1].buffer.palette
              after == lua_buffer'[1].buffer.palette
          IN IF ret'.op = "clear"
             THEN after = DosPalette
             ELSE /\ Len(after) >= Len(before)
                  /\ SubSeq(after, 1, Len(before)) = before]_vars

\* clear() has been called on a canvas whose palette had grown to the 17
\* entries an earlier capture still holds.
C18_Witness ==
    /\ lua_buffer # <<>>
    /\ ret.op = "clear" /\ ret.ok
    /\ lua_buffer[1].buffer.palette = DosPalette
    /\ NumFrames > 0
    /\ Len(FrameAt(0).buffer.palette) = Len(DosPalette) + 1

\* Colours a script passes to fg_rgb/bg_rgb: one the palette of a new
\* buffer holds, two it lacks.
RgbInputs == {<<170, 0, 0>>, <<255, 0, 0>>, <<1, 2, 3>>}

\* r is the result of fg_rgb/bg_rgb(rgb) on lb: it returns an index of the
\* palette after the call whose entry is rgb.
ReturnsIndexOf(r, rgb) ==
    /\ r.ok
    /\ Len(r.value) = 1
    /\ r.value[1] + 1 \in DOMAIN r.lb.buffer.palette
    /\ r.lb.buffer.palette[r.value[1] + 1] = rgb

\* C19: on every canvas a script reaches, fg_rgb(r,g,b) returns a palette
\* index whose entry is (r,g,b) and makes it the cursor's foreground, and a
\* second call with the same triple returns the same index and leaves the
\* palette as the first call left it; likewise bg_rgb and the background.
C19_RgbFindOrInsert ==
    lua_buffer # <<>> =>
        \A rgb \in RgbInputs :
            LET lb == lua_buffer[1]
                f1 == fg_rgb(lb, rgb)
                f2 == fg_rgb(f1.lb, rgb)
                b1 == bg_rgb(lb, rgb)
                b2 == bg_rgb(b1.lb, rgb)
            IN /\ ReturnsIndexOf(f1, rgb)
               /\ f1.lb.caret.attribute.fg = f1.value[1]
               /\ f1.lb.caret.attribute.bg = lb.caret.attribute.bg
               /\ f2.value = f1.value
               /\ f2.lb.buffer.palette = f1.lb.buffer.palette
               /\ ReturnsIndexOf(b1, rgb)
               /\ b1.lb.caret.attribute.bg = b1.value[1]
               /\ b1.lb.caret.attribute.fg = lb.caret.attribute.fg
               /\ b2.value = b1.value
               /\ b2.lb.buffer.palette = b1.lb.buffer.palette

\* fg_rgb has found the colour an earlier bg_rgb added: both cursor colours
\* name entry 16 and the palette has grown by one entry only.
C19_Witness ==
    /\ lua_buffer # <<>>
    /\ ret.op = "fg_rgb" /\ ret.ok
    /\ lua_buffer[1].caret.attribute.fg = 16
    /\ lua_buffer[1].caret.attribute.bg = 16
    /\ lua_buffer[1].buffer.palette = Append(DosPalette, <<255, 0, 0>>)

\* C20: the encoding of a canvas is the one it was created or loaded with:
\* no step of a script, clear() included, changes the buffer_type of its
\* canvas.
C20_EncodingFixed ==
    [][lua_buffer # <<>> =>
          lua_buffer'[1].buffer.buffer_type = lua_buffer[1].buffer.buffer_type]_vars

----------------------------------------------------------------------------
(* Claims about the next_frame host function, checked under Spec *)

\* C21: next_frame called with a value that is no userdata, or with a
\* userdata that is no LuaBuffer, returns an error and leaves the frame
\* sequence as it was.
C21_NonCanvasRejected ==
    [][\A arg \in {"userdata", "value"}, caught \in BOOLEAN :
          script_next_frame(arg, caught) =>
             /\ ~ret'.ok
             /\ ret'.op = "next_frame"
             /\ frames' = frames]_vars

\* A script that had captured one frame has passed a userdata of another
\* type, caught the error and still holds that one frame.
C21_Witness ==
    /\ pc = "script"
    /\ ret.op = "next_frame"
    /\ ~ret.ok /\ ret.err = "userdata type mismatch"
    /\ NumFrames = 1

\* C22: a next_frame(canvas) that succeeds stores with its frame the
\* monitor type, gamma, contrast, saturation, brightness, blur, curvature and
\* scanlines the script globals hold when it is called; and no step of the
\* script, an assignment to a global included, changes the settings stored
\* with a frame captured before.
C22_SettingsFromGlobals ==
    [][/\ \A caught \in BOOLEAN :
             (script_next_frame("canvas", caught) /\ ret'.ok) =>
                \A i \in DOMAIN MonitorGlobals :
                   /\ globals[MonitorGlobals[i][1]].ty = "number"
                   /\ LastFrame'.settings[MonitorGlobals[i][2]] =
                         globals[MonitorGlobals[i][1]].v
       /\ \A k \in 0..(NumFrames - 1) :
             (FrameAt(k).settings)' = FrameAt(k).settings]_vars

\* Two frames captured around an assignment to monitor_type: the first keeps
\* the type it was captured with, the second has the new one.
C22_Witness ==
    /\ NumFrames = 2
    /\ ret.op = "next_frame" /\ ret.ok
    /\ FrameAt(0).settings.monitor_type = 0
    /\ FrameAt(1).settings.monitor_type = 1
    /\ globals["monitor_type"] = Num(1)

\* C23 as claimed: the global cur_frame is 1 as long as no frame has been
\* captured and, after each next_frame call that succeeds, is the number of
\* frames captured so far plus one.
C23_CurFrameCountsCaptures ==
    [][/\ NumFrames = 0 => globals["cur_frame"] = Num(1)
       /\ NumFrames' = 0 => globals'["cur_frame"] = Num(1)
       /\ (ret'.op = "next_frame" /\ ret'.ok) =>
             globals'["cur_frame"] = Num(NumFrames' + 1)]_vars

\* C23 as amended: cur_frame is 1 when the script starts; a next_frame call
\* that is passed a userdata sets it to the number of frames stored before
\* the call plus two, whether the capture then succeeds or fails, so that it
\* is the number of frames plus one after a call that succeeds and the number
\* of frames plus two after one that fails; a call passed no userdata, and
\* every other host call, leave it alone.
C23_CurFrameSetBeforeCapture ==
    [][/\ ret.op = "run" => globals["cur_frame"] = Num(1)
       /\ \A arg \in NextFrameArgs, caught \in BOOLEAN :
             (lua_buffer # <<>> /\ script_next_frame(arg, caught)) =>
                IF arg = "value"
                THEN globals'["cur_frame"] = globals["cur_frame"]
                ELSE /\ globals'["cur_frame"] = Num(NumFrames + 2)
                     /\ ret'.ok => globals'["cur_frame"] = Num(NumFrames' + 1)
                     /\ ~ret'.ok => globals'["cur_frame"] = Num(NumFrames' + 2)
       /\ ret'.op # "next_frame" => globals'["cur_frame"] = globals["cur_frame"]]_vars

\* A next_frame call has failed on a userdata of another type and the script
\* has caught the error: no frame is captured and cur_frame is 2.
C23_Witness ==
    /\ pc = "script"
    /\ ret.op = "next_frame" /\ ~ret.ok
    /\ NumFrames = 0
    /\ globals["cur_frame"] = Num(2)

----------------------------------------------------------------------------
(* SpecLock: the Animator behind its mutex.  While run executes, the script *)
(* reaches it through the next_frame host function, which locks once per     *)
(* statement.  After run has returned Ok(animator) the render loop and the   *)
(* UI callbacks share it: each locks, makes one call and unlocks.            *)

\* Host calls of the script in SpecLock.
MaxLockOps == 3

\* What SpecLock tries: a global that no longer converts, one step of time.
LockGlobalWrites == {w \in GlobalWrites : w[2].ty # "number"}
LockTickSteps == {d \in TickSteps : d > DEFAULT_SPEEED}

unlocked_vars == <<lua_buffer, globals, frames, current_monitor_settings, cur_frame,
                   is_loop, is_playing, speed, elapsed, buffer_view, pc, run_result,
                   ret, ops, txt>>

\* The statements of the host function that lock: the write of cur_frame, the
\* stores of the monitor settings, the call of lua_next_frame.
HostStatements == Len(MonitorGlobals) + 2

\* Mutant of guard_dropped: the guard of the first statement is bound to a
\* name and lives to the end of the function.
guard_bound_to_name(k) == k # 1

\* Every a.lock() of the host function is a temporary of its statement: the
\* guard is dropped when statement k ends.
guard_dropped(k) == TRUE

\* The caller ends: its guard is dropped.
unlock(t) == sync' = [sync EXCEPT !.owner = "none", !.at[t] = "idle"]

\* Mutex::lock: the caller waits while anybody, itself included, holds the
\* lock.
lock(t) ==
    /\ sync.at[t] = "acquire"
    /\ sync.owner = "none"
    /\ sync' = [sync EXCEPT !.owner = t, !.at[t] = "holding"]
    /\ UNCHANGED unlocked_vars

\* The script calls next_frame(buffer) with its canvas: the function is
\* entered and comes to its first a.lock().
host_enter ==
    /\ pc = "script" /\ sync.stmt = 0 /\ lua_buffer # <<>>
    /\ ops < MaxLockOps /\ ops' = ops + 1
    /\ sync' = [sync EXCEPT !.stmt = 1, !.at["script"] = "acquire"]
    /\ UNCHANGED <<lua_buffer, globals, frames, current_monitor_settings, play_vars,
                   pc, run_result, ret, txt>>

\* Statement k of the host function, run while its guard lives; then the
\* read of the global the next statement stores, which returns through `?`
\* when it does not convert.
host_statement ==
    LET k == sync.stmt
        cap == lua_next_frame(frames, NumFrames, lua_buffer[1].buffer,
                              current_monitor_settings, speed)
        owner == IF guard_dropped(k) THEN "none" ELSE sync.owner
    IN /\ sync.at["script"] = "holding"
       /\ globals' = IF k = 1
                     THEN [globals EXCEPT !["cur_frame"] = Num(NumFrames + 2)]
                     ELSE globals
       /\ current_monitor_settings' =
             IF k > 1 /\ k < HostStatements
             THEN [current_monitor_settings EXCEPT
                      ![MonitorGlobals[k - 1][2]] = globals[MonitorGlobals[k - 1][1]].v]
             ELSE current_monitor_settings
       /\ frames' = IF k = HostStatements THEN cap.frames ELSE frames
       /\ IF k = HostStatements
          THEN /\ sync' = [owner |-> owner, stmt |-> 0,
                           at |-> [sync.at EXCEPT !["script"] = "idle"]]
               /\ Outcome("next_frame", cap.ok, cap.err, FALSE)
          ELSE IF k + 1 < HostStatements /\ globals[MonitorGlobals[k][1]].ty # "number"
          THEN /\ sync' = [owner |-> owner, stmt |-> 0,
                           at |-> [sync.at EXCEPT !["script"] = "idle"]]
               /\ Outcome("next_frame", FALSE, "error converting Lua value", FALSE)
          ELSE /\ sync' = [owner |-> owner, stmt |-> k + 1,
                           at |-> [sync.at EXCEPT !["script"] = "acquire"]]
               /\ UNCHANGED <<pc, run_result, ret>>
       /\ UNCHANGED <<lua_buffer, play_vars, ops, txt>>

\* A thread of the host comes to animator.lock() for its next call.
request(t) ==
    /\ pc = "returned" /\ run_result.engine
    /\ sync.at[t] = "idle"
    /\ sync' = [sync EXCEPT !.at[t] = "acquire"]
    /\ UNCHANGED unlocked_vars

\* The render loop's call, made with the lock held.
render_call ==
    /\ sync.at["render"] = "holding"
    /\ update_frame \/ call_display_frame
    /\ unlock("render")

\* A UI callback's call, made with the lock held.
ui_call ==
    /\ sync.at["ui"] = "holding"
    /\ \/ start_playback
       \/ \E i \in 0..(NumFrames - 1) : set_cur_frame(i)
       \/ \E flag \in BOOLEAN : set_is_loop(flag)
       \/ \E flag \in BOOLEAN : set_is_playing(flag)
       \/ \E ms \in Speeds : set_speed(ms)
    /\ unlock("ui")

InitLock == InitScript

NextLock ==
    \/ /\ pc = "script" /\ ops < MaxLockOps /\ ops' = ops + 1 /\ UNCHANGED <<txt, sync>>
       /\ lua_buffer = <<>>
       /\ \E size \in BufferSizes : new_buffer(size)
    \/ host_enter
    \/ \E t \in Threads : lock(t)
    \/ host_statement
    \/ /\ pc = "script" /\ ops < MaxLockOps /\ ops' = ops + 1 /\ UNCHANGED <<txt, sync>>
       /\ sync.stmt = 0
       /\ \E w \in LockGlobalWrites : set_global(w[1], w[2])
    \/ /\ pc = "script" /\ sync.stmt = 0
       /\ UNCHANGED <<ops, txt, sync>>
       /\ script_end
    \/ \E t \in {"render", "ui"} : request(t)
    \/ render_call
    \/ ui_call
    \/ \E d \in LockTickSteps : Tick(d) /\ UNCHANGED sync

\* A thread that holds the lock and can run does run; the mutex hands the
\* lock to a waiting thread eventually.
SpecLock ==
    /\ InitLock /\ [][NextLock]_vars
    /\ WF_vars(host_statement)
    /\ WF_vars(render_call)
    /\ WF_vars(ui_call)
    /\ \A t \in Threads : SF_vars(lock(t))

----------------------------------------------------------------------------
(* Claims about the playback operations, checked under SpecPlay.            *)

\* C25: an advance of update_frame past the last frame with is_loop set
\* leaves the index at 0 and the active duration at the default 100 ms,
\* whatever frame 0 stores; an advance that lands in range leaves the active
\* duration at the stored duration of the frame it lands on.
C25_DurationAfterAdvance ==
    [][(update_frame /\ advance_due) =>
          IF cur_frame + 1 >= NumFrames
          THEN is_loop => (cur_frame' = 0 /\ speed' = DEFAULT_SPEEED)
          ELSE /\ cur_frame' = cur_frame + 1
               /\ speed' = FrameAt(cur_frame + 1).speed]_vars

C25_Witness ==
    /\ ret.op = "update_frame" /\ elapsed = 0 /\ is_loop /\ is_playing
    /\ NumFrames = 2 /\ cur_frame = 0
    /\ FrameAt(0).speed = 250 /\ FrameAt(0).settings.monitor_type = 1
    /\ FrameAt(1).settings.monitor_type = 0
    /\ current_monitor_settings = FrameAt(0).settings
    /\ speed = DEFAULT_SPEEED

\* C26: update_frame called while is_playing is false, or while the time
\* since the last advance is not more than the active duration, changes
\* nothing of the engine (index, is_playing, is_loop, duration, timestamp,
\* stored settings, frames) and hands nothing to the renderer; called while
\* playing with strictly more time elapsed, it advances and restarts the clock.
C26_UpdateOnlyWhenDue ==
    [][update_frame =>
          IF is_playing /\ elapsed > speed
          THEN /\ cur_frame' = next_frame.cur_frame
               /\ elapsed' = 0
          ELSE UNCHANGED <<animator_vars, buffer_view>>]_vars

C26_Witness ==
    /\ ret.op = "update_frame" /\ is_playing /\ elapsed = speed /\ speed = 200
    /\ NumFrames = 2 /\ cur_frame = 0 /\ FrameAt(1).speed = 250
    /\ buffer_view = <<>>

\* C27: start_playback, update_frame, display_frame, set_cur_frame,
\* set_is_loop, set_is_playing and set_speed leave the frame sequence as it
\* is: no frame is added, removed, moved or changed.
C27_PlaybackKeepsFrames ==
    [][(\/ update_frame
        \/ start_playback
        \/ call_display_frame
        \/ \E i \in 0..NumFrames : set_cur_frame(i)
        \/ \E flag \in BOOLEAN : set_is_loop(flag)
        \/ \E flag \in BOOLEAN : set_is_playing(flag)
        \/ \E ms \in Speeds : set_speed(ms))
          => /\ NumFrames' = NumFrames
             /\ \A k \in 0..(NumFrames - 1) : FrameAt(k)' = FrameAt(k)]_vars

C27_Witness ==
    /\ NumFrames = 3 /\ FrameAt(0) # FrameAt(1) /\ FrameAt(1) # FrameAt(2)
    /\ ret.op = "display_frame" /\ cur_frame = 2 /\ is_loop /\ ~is_playing /\ speed = 40
    /\ buffer_view # <<>>

----------------------------------------------------------------------------
(* Claims about print and clear, checked under Spec.                        *)

\* C28: print(text) of n characters on a canvas whose active layer exists
\* writes the k-th character (k = 0..n-1), in the cursor's attribute, to the
\* active layer at (x0 + k, y0), where (x0, y0) is the cursor position at the
\* call, and leaves the cursor at (x0 + n, y0); print of the empty text
\* leaves canvas and cursor as they are.
C28_PrintWritesAtCursor ==
    [][\A str \in PrintArgs, caught \in BOOLEAN :
          (/\ lua_buffer # <<>>
           /\ ret'.op = "print"
           /\ CanvasCall("print", print(lua_buffer[1], str), caught)
           /\ str = <<>> \/ lua_buffer[1].cur_layer < layer_count(lua_buffer[1]))
             => LET lb == lua_buffer[1]
                    x0 == lb.caret.pos[1]
                    y0 == lb.caret.pos[2]
                    n == Len(str)
                IN /\ ret'.ok
                   /\ n = 0 => lua_buffer' = lua_buffer
                   /\ lua_buffer'[1].caret.pos = <<x0 + n, y0>>
                   /\ \A k \in 0..(n - 1) :
                         Layer_get_char(lua_buffer'[1].buffer.layers[lb.cur_layer + 1],
                                        <<x0 + k, y0>>)
                            = [ch |-> convert_from_unicode(lb, <<str[k + 1]>>).ch,
                               attribute |-> lb.caret.attribute]]_vars

C28_Witness ==
    /\ lua_buffer # <<>> /\ ret.op = "print" /\ ret.ok
    /\ lua_buffer[1].cur_layer = 0
    /\ lua_buffer[1].caret.pos = <<2, 0>>
    /\ lua_buffer[1].caret.attribute.fg = 16
    /\ Layer_get_char(lua_buffer[1].buffer.layers[1], <<0, 0>>)
          = [ch |-> 65, attribute |-> lua_buffer[1].caret.attribute]
    /\ Layer_get_char(lua_buffer[1].buffer.layers[1], <<1, 0>>)
          = [ch |-> 66, attribute |-> lua_buffer[1].caret.attribute]

\* C29: print of a text on a canvas whose active layer index is not below
\* layer_count returns an error, does not panic, and leaves canvas and cursor
\* as they are (stated here for the texts of at least one character).
C29_PrintRejectsMissingLayer ==
    [][\A str \in PrintArgs \ {<<>>}, caught \in BOOLEAN :
          (/\ lua_buffer # <<>>
           /\ ret'.op = "print"
           /\ lua_buffer[1].cur_layer >= layer_count(lua_buffer[1])
           /\ CanvasCall("print", print(lua_buffer[1], str), caught))
             => /\ ~ret'.ok
                /\ pc' # "panicked"
                /\ lua_buffer' = lua_buffer]_vars

\* C30: clear() succeeds, leaves the cursor in its default state and the
\* canvas a blank one of the width and height it had: the standard palette,
\* one layer without any written cell, the default font only.
C30_ClearResets ==
    [][(lua_buffer # <<>> /\ ret'.op = "clear") =>
          /\ ret'.ok
          /\ lua_buffer'[1].caret = Caret_default
          /\ get_size(lua_buffer'[1].buffer) = get_size(lua_buffer[1].buffer)
          /\ lua_buffer'[1].buffer.palette = DosPalette
          /\ lua_buffer'[1].buffer.layers = <<Layer_new>>
          /\ lua_buffer'[1].buffer.font_table = {0}]_vars

C30_Witness ==
    /\ lua_buffer # <<>> /\ ret.op = "clear" /\ ret.ok
    /\ lua_buffer[1].cur_layer = 1
    /\ lua_buffer[1].buffer.width = 3 /\ lua_buffer[1].buffer.height = 1
    /\ lua_buffer[1].buffer.layers = <<Layer_new>>
    /\ lua_buffer[1].buffer.font_table = {0}
    /\ lua_buffer[1].caret = Caret_default

----------------------------------------------------------------------------
(* Claims about the reading methods of the canvas, checked under Spec.      *)

\* C31: on every canvas a script reaches whose active layer exists, and for
\* every position, get_char(x,y) leaves cursor and canvas as they are, and
\* pickup_char(x,y) returns the character get_char(x,y) returns, makes the
\* attribute of the cell at (x,y) of the active layer the cursor's attribute
\* and leaves the cursor position, the active layer and the canvas as they
\* are.
C31_GetAndPickupChar ==
    (lua_buffer # <<>> /\ lua_buffer[1].cur_layer < layer_count(lua_buffer[1])) =>
        \A pos \in Positions :
            LET lb == lua_buffer[1]
                g == get_char(lb, pos)
                p == pickup_char(lb, pos)
                cell == Layer_get_char(lb.buffer.layers[lb.cur_layer + 1], pos)
            IN /\ g.ok /\ g.lb = lb
               /\ p.ok /\ p.value = g.value
               /\ p.lb.caret.attribute = cell.attribute
               /\ p.lb.caret.pos = lb.caret.pos
               /\ p.lb.cur_layer = lb.cur_layer
               /\ p.lb.buffer = lb.buffer

\* A script has coloured the cell (0,0) with set_fg and set_bg and picked it
\* up: the cursor carries colour 4 twice, which no other call gives it.
C31_Witness ==
    /\ lua_buffer # <<>>
    /\ ret.op = "pickup_char" /\ ret.ok
    /\ lua_buffer[1].caret.attribute.fg = 4
    /\ lua_buffer[1].caret.attribute.bg = 4
    /\ lua_buffer[1].caret.pos = <<0, 0>>
    /\ Layer_get_char(lua_buffer[1].buffer.layers[1], <<0, 0>>).attribute.fg = 4

\* The colours tried by the colour round trip.
CellColours == {0, 4, 16}

\* after differs from before in the cell at pos of the active layer at most:
\* cursor, active layer index, palette, size, fonts, the other layers, and
\* the offset, the visibility and every other cell of the active layer are
\* the same.
OnlyCellChanged(before, after, pos) ==
    LET l == before.cur_layer + 1
        old == before.buffer.layers[l]
        new == after.buffer.layers[l]
    IN /\ after.caret = before.caret
       /\ after.cur_layer = before.cur_layer
       /\ [after.buffer EXCEPT !.layers = before.buffer.layers] = before.buffer
       /\ Len(after.buffer.layers) = Len(before.buffer.layers)
       /\ \A i \in DOMAIN before.buffer.layers :
             i # l => after.buffer.layers[i] = before.buffer.layers[i]
       /\ [new EXCEPT !.cells = old.cells] = old
       /\ \A q \in ((DOMAIN old.cells) \cup (DOMAIN new.cells) \cup Positions) \ {pos} :
             Layer_get_char(new, q) = Layer_get_char(old, q)

\* C32: on every canvas a script reaches whose active layer exists, set_fg(x,
\* y,col) followed by get_fg(x,y) returns col and set_bg(x,y,col) followed by
\* get_bg(x,y) returns col; each setter keeps the character and the other
\* colour of the cell and changes no other cell, nor the cursor.
C32_CellColourRoundTrip ==
    (lua_buffer # <<>> /\ lua_buffer[1].cur_layer < layer_count(lua_buffer[1])) =>
        \A pos \in Positions, col \in CellColours :
            LET lb == lua_buffer[1]
                cell == Layer_get_char(lb.buffer.layers[lb.cur_layer + 1], pos)
                f == set_fg(lb, pos, col)
                b == set_bg(lb, pos, col)
                fcell == Layer_get_char(f.lb.buffer.layers[lb.cur_layer + 1], pos)
                bcell == Layer_get_char(b.lb.buffer.layers[lb.cur_layer + 1], pos)
            IN /\ f.ok /\ get_fg(f.lb, pos).ok /\ get_fg(f.lb, pos).value = <<col>>
               /\ fcell = [cell EXCEPT !.attribute.fg = col]
               /\ OnlyCellChanged(lb, f.lb, pos)
               /\ b.ok /\ get_bg(b.lb, pos).ok /\ get_bg(b.lb, pos).value = <<col>>
               /\ bcell = [cell EXCEPT !.attribute.bg = col]
               /\ OnlyCellChanged(lb, b.lb, pos)

\* A script has written "A" at (1,0), given the cell foreground 4 and read
\* the foreground back; the cursor still has its own colours.
C32_Witness ==
    /\ lua_buffer # <<>>
    /\ ret.op = "get_fg" /\ ret.ok
    /\ Layer_get_char(lua_buffer[1].buffer.layers[1], <<1, 0>>)
          = [ch |-> 65, attribute |-> [fg |-> 4, bg |-> 0, font_page |-> 0]]
    /\ lua_buffer[1].caret = Caret_default

\* The offsets tried by the layer round trip.
LayerOffsets == {<<0, 0>>, <<1, 1>>, <<-2, 3>>}

\* after differs from before in layer `layer` at most.
OnlyLayerChanged(before, after, layer) ==
    /\ after.caret = before.caret
    /\ after.cur_layer = before.cur_layer
    /\ Len(after.buffer.layers) = Len(before.buffer.layers)
    /\ \A i \in DOMAIN before.buffer.layers :
          i # layer + 1 => after.buffer.layers[i] = before.buffer.layers[i]

\* C33: on every canvas a script reaches and for every layer index below
\* layer_count, set_layer_position(layer,x,y) followed by
\* get_layer_position(layer) returns (x,y), set_layer_visible(layer,flag)
\* followed by get_layer_visible(layer) returns flag, and neither setter
\* changes another layer, the active layer index or the cursor.
C33_LayerRoundTrip ==
    lua_buffer # <<>> =>
        \A layer \in 0..(layer_count(lua_buffer[1]) - 1) :
            LET lb == lua_buffer[1]
            IN /\ \A offset \in LayerOffsets :
                     LET w == set_layer_position(lb, layer, offset)
                         r == get_layer_position(w.lb, layer)
                     IN /\ w.ok /\ r.ok /\ r.value = offset
                        /\ OnlyLayerChanged(lb, w.lb, layer)
               /\ \A flag \in BOOLEAN :
                     LET w == set_layer_visible(lb, layer, flag)
                         r == get_layer_visible(w.lb, layer)
                     IN /\ w.ok /\ r.ok /\ r.value = <<flag>>
                        /\ OnlyLayerChanged(lb, w.lb, layer)

\* A script has loaded a canvas of two layers, moved and hidden the upper
\* layer while the lower one is active, and read the flag back.
C33_Witness ==
    /\ lua_buffer # <<>>
    /\ ret.op = "get_layer_visible" /\ ret.ok
    /\ layer_count(lua_buffer[1]) = 2
    /\ lua_buffer[1].cur_layer = 0
    /\ lua_buffer[1].buffer.layers[2].offset = <<1, 1>>
    /\ ~lua_buffer[1].buffer.layers[2].is_visible
    /\ lua_buffer[1].buffer.layers[1] = Layer_new

\* C34: on every canvas a script reaches and for every position,
\* set_char(x,y,"") returns an error without panicking and leaves canvas and
\* cursor as they are; where the active layer exists the error is the one
\* convert_from_unicode raises for the empty string.
C34_EmptyCharRejected ==
    lua_buffer # <<>> =>
        \A pos \in Positions :
            LET lb == lua_buffer[1]
                r == set_char(lb, pos, <<>>)
            IN /\ ~r.ok /\ ~r.panic
               /\ r.lb = lb
               /\ r.err = IF lb.cur_layer < layer_count(lb)
                          THEN "Empty string" ELSE CurLayerError

\* A script has written "A" at (0,0) and then caught the error of a
\* set_char with the empty string: the cell still holds "A".
C34_Witness ==
    /\ lua_buffer # <<>> /\ pc = "script"
    /\ ret.op = "set_char" /\ ~ret.ok /\ ret.err = "Empty string"
    /\ Layer_get_char(lua_buffer[1].buffer.layers[1], <<0, 0>>).ch = 65
    /\ lua_buffer[1].cur_layer = 0

----------------------------------------------------------------------------
(* Further claims about playback, checked under SpecPlay.                   *)

\* C35: set_speed(ms) makes ms the active duration, and update_frame on a
\* playing engine advances exactly when more than the active duration has
\* elapsed, whatever the current frame stores.  The active duration is
\* replaced by an advance onto a frame in range (that frame's duration), by a
\* loop wrap (the default) and by set_cur_frame in range (that frame's
\* duration), and kept by every other call.  set_is_loop, set_is_playing and
\* set_speed change their own field only: index, timestamp, frames and the
\* other fields stay.
C35_SpeedOverride ==
    [][/\ \A ms \in Speeds : set_speed(ms) =>
             /\ speed' = ms
             /\ UNCHANGED <<frames, current_monitor_settings, cur_frame, is_loop,
                            is_playing, elapsed, buffer_view>>
       /\ \A flag \in BOOLEAN : set_is_loop(flag) =>
             /\ is_loop' = flag
             /\ UNCHANGED <<frames, current_monitor_settings, cur_frame, is_playing,
                            speed, elapsed, buffer_view>>
       /\ \A flag \in BOOLEAN : set_is_playing(flag) =>
             /\ is_playing' = flag
             /\ UNCHANGED <<frames, current_monitor_settings, cur_frame, is_loop,
                            speed, elapsed, buffer_view>>
       /\ update_frame =>
             /\ is_playing => ((elapsed > speed) <=> (elapsed # 0 /\ elapsed' = 0))
             /\ speed' = IF ~(is_playing /\ elapsed > speed) THEN speed
                         ELSE IF cur_frame + 1 < NumFrames
                              THEN FrameAt(cur_frame + 1).speed
                         ELSE IF is_loop THEN DEFAULT_SPEEED
                         ELSE speed
       /\ \A i \in 0..(NumFrames - 1) : set_cur_frame(i) => speed' = FrameAt(i).speed
       /\ (start_playback \/ call_display_frame) => speed' = speed]_vars

\* set_speed(200) is in force on a playing engine at frame 0, which stores
\* 100 ms: update_frame was the last call and 200 ms later the engine is
\* still at frame 0.
C35_Witness ==
    /\ ret.op = "update_frame" /\ is_playing
    /\ speed = 200 /\ elapsed = 200
    /\ NumFrames = 2 /\ cur_frame = 0 /\ FrameAt(0).speed = DEFAULT_SPEEED
    /\ buffer_view # <<>>

----------------------------------------------------------------------------
(* A claim about the shared engine, checked under SpecLock.                 *)

\* C36: while the frame sequence is not empty, under every interleaving of
\* the render loop's and the UI callbacks' calls of start_playback,
\* update_frame, display_frame, set_is_loop, set_is_playing, set_speed and
\* set_cur_frame with an index in range, each made with the lock held, the
\* current index is an index of the sequence.
C36_IndexInRange ==
    NumFrames > 0 => (cur_frame >= 0 /\ cur_frame < NumFrames)

\* The engine has played a sequence of two frames to its end without
\* looping while a UI callback waits for the lock the render loop gave up.
C36_Witness ==
    /\ pc = "returned" /\ NumFrames = 2
    /\ ret.op = "update_frame" /\ cur_frame = 1 /\ ~is_playing /\ ~is_loop
    /\ elapsed = 0
    /\ sync.owner = "none" /\ sync.at["ui"] = "acquire"

----------------------------------------------------------------------------
(* Claims about a script run, checked under Spec.                           *)

\* C37: whatever canvas operations a script has made on the canvas it got
\* from new_buffer or load_buffer, assignments to layer and clear()
\* included, the active layer index is below layer_count.
C37_ActiveLayerExists ==
    lua_buffer # <<>> => lua_buffer[1].cur_layer < layer_count(lua_buffer[1])

\* C38: a next_frame call that fails leaves the frame sequence, the
\* Animator's stored monitor settings and the global cur_frame as they were
\* before the call.
C38_FailedCaptureChangesNothing ==
    [][\A arg \in NextFrameArgs, caught \in BOOLEAN :
          (lua_buffer # <<>> /\ script_next_frame(arg, caught) /\ ~ret'.ok) =>
             /\ frames' = frames
             /\ current_monitor_settings' = current_monitor_settings
             /\ globals'["cur_frame"] = globals["cur_frame"]]_vars

\* The monitor globals from the first on that are numbers: what a call
\* stores before it meets a global that does not convert.
StoredBeforeFailure ==
    {i \in DOMAIN MonitorGlobals :
        \A k \in 1..i : globals[MonitorGlobals[k][1]].ty = "number"}

\* C38 as the code has it: a next_frame call that fails never changes the
\* frame sequence.  Passed a value that is no userdata it changes nothing
\* else either.  Passed a userdata it has set cur_frame to the number of
\* frames plus two and has stored every monitor global read before the
\* failure: all of them when the userdata is no canvas or the frame limit is
\* reached, those before the first global that is not a number otherwise.
C38_FailedCaptureKeepsFrames ==
    [][\A arg \in NextFrameArgs, caught \in BOOLEAN :
          (lua_buffer # <<>> /\ script_next_frame(arg, caught) /\ ~ret'.ok) =>
             /\ frames' = frames
             /\ IF arg = "value"
                THEN UNCHANGED <<globals, current_monitor_settings>>
                ELSE /\ globals' = [globals EXCEPT !["cur_frame"] = Num(NumFrames + 2)]
                     /\ \A i \in DOMAIN MonitorGlobals :
                           current_monitor_settings'[MonitorGlobals[i][2]] =
                              IF i \in StoredBeforeFailure
                              THEN globals[MonitorGlobals[i][1]].v
                              ELSE current_monitor_settings[MonitorGlobals[i][2]]]_vars

\* A script has set monitor_type to 1 and monitor_blur to nil and caught the
\* error of next_frame: no frame is stored, the Animator holds monitor type
\* 1 and cur_frame is 2.
C38_Witness ==
    /\ pc = "script" /\ lua_buffer # <<>>
    /\ ret.op = "next_frame" /\ ~ret.ok /\ ret.err = "error converting Lua value"
    /\ NumFrames = 0
    /\ current_monitor_settings.monitor_type = 1
    /\ globals["cur_frame"] = Num(2)

----------------------------------------------------------------------------
(* A claim about what update_frame returns, checked under SpecPlay.         *)

----------------------------------------------------------------------------
(* A claim about the stored durations, checked under Spec.                  *)

\* C40: a capture that succeeds stores the Animator's active duration at
\* that moment with the frame; no step of a script changes the active
\* duration, which stays at the default, so every frame a script run has
\* captured stores 100 ms.
C40_CapturedDurationIsDefault ==
    /\ [][/\ speed' = speed
          /\ \A caught \in BOOLEAN :
                (lua_buffer # <<>> /\ script_next_frame("canvas", caught) /\ ret'.ok) =>
                   LastFrame'.speed = speed]_vars
    /\ [](/\ speed = DEFAULT_SPEEED
          /\ \A k \in 0..(NumFrames - 1) : FrameAt(k).speed = 100)

\* A script has captured two frames, the second with other monitor settings
\* than the first.
C40_Witness ==
    /\ ret.op = "next_frame" /\ ret.ok
    /\ NumFrames = 2
    /\ FrameAt(0).settings # FrameAt(1).settings
    /\ \A k \in 0..1 : FrameAt(k).speed = 100

====
